---- MODULE Spec2Model ----
(***************************************************************************)
(* NeuralStark: ingestion (watcher -> queue -> worker -> vector index)     *)
(* and the knowledge-base query pipeline, as state machines.               *)
(*                                                                         *)
(* Strings that the code inspects character by character (paths) are       *)
(* sequences of one-character strings; all other strings are atoms.        *)
(***************************************************************************)
EXTENDS Integers, Sequences, FiniteSets, Bags, TLC

(***************************************************************************)
(* Bounds of the model.                                                    *)
(***************************************************************************)
MaxFaults == 1         \* store operations that fail in one run
MaxFsOps == 1          \* changes the environment makes to the file tree
MaxEvents == 2
MaxCalls == 2
MaxTicks == 1         \* events delivered to the watcher's handler
MaxWait == 2          \* units of time one query is followed for
MaxReports == 3       \* scheduled reports created
MaxDepth == 3         \* frames of _load_metadata the interpreter allows

(***************************************************************************)
(* Program constants.                                                      *)
(***************************************************************************)
max_retries == 3           \* @celery_app.task(max_retries=3)
batch_threshold == 1000    \* if len(texts) > 1000
batch_size == 100          \* batch_size = 100
RETRIEVAL_K == 10          \* candidates retrieved
RERANKER_TOP_K == 5        \* documents kept after reranking
RETRIEVAL_SCORE_THRESHOLD == 30    \* 0.3, in hundredths
FallbackKeep == 3
max_backup_count == 10          \* candidate_docs[:3]

(***************************************************************************)
(* Paths.  os.getcwd() is "/w"; the two watched roots are "/w/i" and       *)
(* "/w/x".                                                                 *)
(***************************************************************************)
Cwd == <<"/", "w">>
INTERNAL_KNOWLEDGE_BASE_PATH == <<"/", "w", "/", "i">>
EXTERNAL_KNOWLEDGE_BASE_PATH == <<"/", "w", "/", "x">>

\* The paths that events and uploads name: an absolute path, a relative
\* spelling of the same file, and a file of the other root.
PathA == <<"/", "w", "/", "i", "/", "a">>
PathARel == <<"i", "/", ".", "/", "a">>
PathB == <<"/", "w", "/", "x", "/", "b">>
\* The path of an upload into the internal root whose file name is
\* "../ib/c": os.path.join(target_dir, file.filename), main.py 608.
PathUp == INTERNAL_KNOWLEDGE_BASE_PATH \o <<"/", ".", ".", "/", "i", "b", "/", "c">>
RawPaths == { PathA, PathARel, PathB, PathUp }

\* Index of the first "/" of s, or Len(s) + 1.
RECURSIVE FirstSep(_, _)
FirstSep(s, k) ==
    IF k > Len(s) THEN k
    ELSE IF s[k] = "/" THEN k ELSE FirstSep(s, k + 1)

\* str.split("/") without the empty components.
RECURSIVE Components(_)
Components(s) ==
    IF s = <<>> THEN <<>>
    ELSE IF Head(s) = "/" THEN Components(Tail(s))
    ELSE LET n == FirstSep(s, 1)
         IN  <<SubSeq(s, 1, n - 1)>> \o Components(SubSeq(s, n, Len(s)))

\* os.path.normpath on the components of an absolute path: "." is dropped,
\* ".." removes the component before it.
RECURSIVE Resolve(_, _)
Resolve(comps, acc) ==
    IF comps = <<>> THEN acc
    ELSE IF Head(comps) = <<".">> THEN Resolve(Tail(comps), acc)
    ELSE IF Head(comps) = <<".", ".">>
         THEN Resolve(Tail(comps),
                      IF acc = <<>> THEN acc ELSE SubSeq(acc, 1, Len(acc) - 1))
    ELSE Resolve(Tail(comps), Append(acc, Head(comps)))

RECURSIVE JoinComps(_)
JoinComps(comps) ==
    IF comps = <<>> THEN <<>>
    ELSE <<"/">> \o Head(comps) \o JoinComps(Tail(comps))

\* os.path.abspath(path)
abspath(path) ==
    LET full == IF path # <<>> /\ Head(path) = "/" THEN path
                ELSE Cwd \o <<"/">> \o path
        comps == Resolve(Components(full), <<>>)
    IN  IF comps = <<>> THEN <<"/">> ELSE JoinComps(comps)

\* os.path.basename(path)
basename(path) ==
    LET comps == Components(path)
    IN  IF path = <<>> \/ path[Len(path)] = "/" \/ comps = <<>> THEN <<>>
        ELSE comps[Len(comps)]

\* str.startswith
startswith(s, prefix) ==
    /\ Len(prefix) <= Len(s)
    /\ SubSeq(s, 1, Len(prefix)) = prefix

NormPaths == { abspath(p) : p \in RawPaths }

(***************************************************************************)
(* File contents.  A file's text is the sequence of the pieces the text    *)
(* splitter cuts it into; a piece of " " is whitespace only.  A file may   *)
(* be missing.                                                             *)
(***************************************************************************)
None == <<"None">>

Texts == { <<>>, <<" ">>, <<"A">>, <<"B", " ", "A">> }
Missing == [ st |-> "missing", text |-> <<>> ]
FileOf(text) == [ st |-> "ok", text |-> text ]
FileStates == { FileOf(t) : t \in Texts } \cup {Missing}

EventTypes == {"created", "modified", "deleted"}

\* The worker slots of the pool, and the thread of the API process that
\* runs process_document_sync.
Workers == {"w1", "w2"}
Api == "api"
Executors == Workers \cup {Api}

\* The ids of the runs (task ids, and the synchronous runs).
JobIds == {1, 2}

VARIABLES
    files,      \* the document tree: normalized path -> FileStates
    index,      \* the collection: a bag of entries (add_texts gives fresh ids)
    brokerUp,   \* whether producers can reach the broker
    queue,      \* the broker's queue: a bag of task messages
    state,      \* run id -> last recorded state or returned status
    execs,      \* run id -> number of times the body was entered
    ex,         \* executor -> its position in the run it executes
    nsub,       \* run ids handed out so far
    nfs,        \* changes made to the file tree so far
    nfault,     \* store operations that have failed so far
    lim,        \* the limits of this run: [jobs, faults, fs, paths, files]
    watch,      \* the last event the watcher's handler was called with,
                \* the delay() calls it made and how the call ended
    nev,        \* events delivered to the handler so far
    answer      \* the last call of _run_knowledge_base_search: its input,
                \* what it computed on the way and what it returned

VARIABLES
    chroma,     \* the index directory (chroma_path)
    backups,    \* the directories backup_* of backup_path
    journal,    \* chroma_metadata.json
    clock,      \* the wall clock, in seconds
    ncall,      \* calls of the manager so far
    done        \* the last call of the manager and what it returned

VARIABLES
    _instance,  \* ChromaDBManager._instance: 0 (None) or the manager object
    _lock,      \* ChromaDBManager._lock: "free" or the thread that holds it
    _client,    \* the manager's _client: 0 (None) or a client
    clients,    \* the persistent clients constructed in the process
    threads     \* the threads of the process: where each is, what it got

VARIABLES
    schedules,  \* neuralstark/scheduled_reports.json: its text, or None
    created,    \* the names given to the create calls that returned
    got         \* the last call of get_scheduled_reports: what it returned

VARIABLES
    _embeddings,    \* the manager's _embeddings: 0 (None) or the model
    _vector_store   \* the manager's _vector_store: 0 (None) or the store

ivars == <<files, index, brokerUp, queue, state, execs, ex, nsub, nfs, nfault, lim>>
wvars == <<watch, nev>>
rvars == <<chroma, backups, journal, clock, ncall, done>>
cvars == <<_instance, _lock, _client, clients, threads>>
svars == <<schedules, created, got>>
mvars == <<_embeddings, _vector_store>>
vars == <<ivars, wvars, answer, rvars, cvars, svars, mvars>>

(***************************************************************************)
(* The vector store.                                                       *)
(***************************************************************************)
\* A delete that removes nothing.
DeleteWhereNothing(idx, src) == idx
\* A delete that removes every entry.
DeleteWhereAll(idx, src) == EmptyBag
\* vector_store.delete(where={"source": src})
DeleteWhere(idx, src) ==
    LET keep == { e \in DOMAIN idx : e.source # src }
    IN  [ e \in keep |-> idx[e] ]

\* Number of entries whose source is src.
EntryCount(idx, src) ==
    BagCardinality([ e \in { x \in DOMAIN idx : x.source = src } |-> idx[e] ])

\* The chunks as the splitter gives them.
KeepTexts(texts) == texts
\* [text for text in texts if text and text.strip()]
FilterTexts(texts) == SelectSeq(texts, LAMBDA t : t # "" /\ t # " ")

\* text_splitter.split_text(extracted_text)
split_text(text) == text

\* The source_type of a normalized path.
SourceTypeOf(nfp) ==
    IF startswith(nfp, abspath(INTERNAL_KNOWLEDGE_BASE_PATH)) THEN "internal"
    ELSE IF startswith(nfp, abspath(EXTERNAL_KNOWLEDGE_BASE_PATH)) THEN "external"
    ELSE "unknown"

\* parse_document(file_path): the text, or None when the file cannot be
\* opened or parsed (every parse_* function returns None on any exception).
parse_document(fs, file_path) ==
    LET f == fs[abspath(file_path)]
    IN  IF f.st # "ok" THEN None ELSE f.text

\* A test of extracted_text against None only.
TruthyNotNone(text) == text # None
\* The truth value of extracted_text.
Truthy(text) == text # None /\ text # <<>>

\* The metadata and text of one chunk.
Entry(file_path, event_type, chunk_index, batch, text) ==
    [ source      |-> abspath(file_path),
      file_name   |-> basename(file_path),
      event_type  |-> event_type,
      source_type |-> SourceTypeOf(abspath(file_path)),
      batch       |-> batch,
      chunk_index |-> chunk_index,
      text        |-> text ]

NoBatch == 0 - 1

\* Whether the texts are indexed in batches.
Batched(texts) == Len(texts) > batch_threshold

\* Batches whose chunk_index starts from 0 in every batch.
BatchEntriesLocal(file_path, event_type, texts, i) ==
    IF Batched(texts)
    THEN LET last == IF i + batch_size < Len(texts) THEN i + batch_size ELSE Len(texts)
         IN  [ j \in 1 .. (last - i) |->
                 Entry(file_path, event_type, j - 1, i \div batch_size, texts[i + j]) ]
    ELSE [ j \in 1 .. Len(texts) |->
                 Entry(file_path, event_type, j - 1, NoBatch, texts[j]) ]

\* The entries of the add_texts call that starts at offset i (0-based).
BatchEntries(file_path, event_type, texts, i) ==
    IF Batched(texts)
    THEN LET last == IF i + batch_size < Len(texts) THEN i + batch_size ELSE Len(texts)
         IN  [ j \in 1 .. (last - i) |->
                 Entry(file_path, event_type, i + (j - 1), i \div batch_size, texts[i + j]) ]
    ELSE [ j \in 1 .. Len(texts) |->
                 Entry(file_path, event_type, j - 1, NoBatch, texts[j]) ]

\* The bag of the elements of a sequence.
SeqToBag(s) ==
    [ e \in { s[i] : i \in DOMAIN s } |-> Cardinality({ i \in DOMAIN s : s[i] = e }) ]

\* vector_store.add_texts(texts, metadatas)
AddTexts(idx, entries) == idx (+) SeqToBag(entries)

(***************************************************************************)
(* Messages and the retry of a task.                                       *)
(***************************************************************************)
Msg(id, file_path, event_type, retries) ==
    [ id |-> id, file_path |-> file_path, event_type |-> event_type,
      retries |-> retries ]

Idle == [ pc |-> "idle" ]

\* What the result backend holds for a run, or what the run returned: its
\* status and the arguments it was called with.
Result(status, m) ==
    [ status |-> status, file_path |-> m.file_path, event_type |-> m.event_type ]
NoResult == [ status |-> "none", file_path |-> <<>>, event_type |-> "none" ]

\* Task.retry(exc=e): past max_retries the exception is raised and the task
\* fails; otherwise the task is sent again with retries + 1 and Retry is
\* raised.
RetryExhausted(m) == m.retries + 1 > max_retries

RetrySend(q, m) ==
    IF RetryExhausted(m) THEN q
    ELSE q (+) SetToBag({ Msg(m.id, m.file_path, m.event_type, m.retries + 1) })

RetryState(m) == IF RetryExhausted(m) THEN "FAILURE" ELSE "RETRY"

\* The executors other than x that are adding the chunks of src lose the
\* mark that the entries of src are their own: x has written or deleted
\* entries of src.
Disturb(exf, x, src) ==
    [ y \in Executors |->
        IF y # x /\ exf[y].pc = "add" /\ abspath(exf[y].msg.file_path) = src
        THEN [ exf[y] EXCEPT !.own = FALSE ]
        ELSE exf[y] ]

NoEvent == [ kind |-> "none" ]
NoQuery == [ kind |-> "none" ]

(***************************************************************************)
(* ChromaDBRobustnessManager (chromadb_robustness.py): the index           *)
(* directory, the backup directory beside it and the metadata journal.     *)
(* Times are whole seconds; a directory keeps its modification time, and   *)
(* a backup keeps, next to what the file system holds, the rank of its     *)
(* creation.                                                               *)
(***************************************************************************)
\* The files of the index directory: the sqlite file at its top, and the
\* files of one segment directory.
SqliteFile == [ dir |-> "", ext |-> "sqlite3" ]
BinFile == [ dir |-> "seg", ext |-> "bin" ]
PickleFile == [ dir |-> "seg", ext |-> "pickle" ]
IndexFiles == {SqliteFile, BinFile, PickleFile}

\* A directory that exists, and chroma_path when nothing is there.
Dir(mtime, fs) == [ exists |-> TRUE, mtime |-> mtime, files |-> fs ]
Absent == [ exists |-> FALSE, mtime |-> 0, files |-> <<>> ]

\* rglob("*.sqlite*") and rglob("*.bin") on the file's name.
MatchSqlite(f) == f.ext \in {"sqlite", "sqlite3"}
MatchBin(f) == f.ext = "bin"

\* file_path.stat().st_size == 0
EmptyFiles(d) == { f \in DOMAIN d.files : d.files[f] = 0 }

\* unlink() of the files S of directory d at time now: the directory's
\* modification time moves when an entry at its top goes.
Unlink(d, S, now) ==
    IF S \cap DOMAIN d.files = {}
    THEN d
    ELSE Dir(IF \E f \in S \cap DOMAIN d.files : f.dir = "" THEN now ELSE d.mtime,
             [ f \in DOMAIN d.files \ S |-> d.files[f] ])

\* The seconds at which the manager is constructed.
Start == max_backup_count + 1

\* backup_{timestamp}_{reason}
BackupName(ts, reason) == [ ts |-> ts, reason |-> reason ]
Name(b) == BackupName(b.ts, b.reason)
NoName == BackupName(0, <<"None", "">>)

\* The reasons of the backups: "manual", "pre_restore" and
\* "pre_recovery_{corruption_type}".
Manual == <<"manual", "">>
PreRestore == <<"pre_restore", "">>
PreRecovery(corruption_type) == <<"pre_recovery", corruption_type>>
CorruptionTypes == {"empty_files", "connection_failure", "index_corruption", "general"}

\* shutil.copytree(chroma_path, backup_dir): the copy of directory d made
\* at second ts; copytree ends with copystat, so that the copy carries the
\* modification time of d.
BackupOf(d, ts, reason, rank) ==
    [ ts |-> ts, reason |-> reason, mtime |-> d.mtime, files |-> d.files, created |-> rank ]

\* The primitive that fails during a call, and the file it fails on.
NoFault == [ kind |-> "none", file |-> SqliteFile ]
FileFaultKinds == {"backup_file", "unlink", "rmtree", "restore_file"}
CallFaults(kinds) ==
    {NoFault}
        \cup { [ kind |-> k, file |-> SqliteFile ] : k \in kinds \ FileFaultKinds }
        \cup { [ kind |-> k, file |-> f ] : k \in kinds \cap FileFaultKinds,
                                            f \in {SqliteFile, BinFile} }
BackupFaults == {"backup_mkdir", "backup_file", "load", "save", "prune"}
RecoveryFaults == BackupFaults \cup {"unlink", "rmtree", "mkdir"}
RestoreFaults == BackupFaults \cup {"rmtree", "restore_file"}

\* The metadata file as _init_metadata writes it.
NoJournal ==
    [ last_backup |-> 0, last_health_check |-> 0, corruption_events |-> <<>>,
      recovery_events |-> <<>> ]

\* What a call works on and what it hands back: the directories, the
\* journal, the returned value with the path it names, and the failures
\* that the call met.
Mgr(c, b, j) ==
    [ chroma |-> c, backups |-> b, journal |-> j, ret |-> "None", path |-> NoName,
      failed |-> {} ]
Return(s, ret) == [ s EXCEPT !.ret = ret ]

\* An exception leaves the primitive that failed.
Raise(s, kind) == [ s EXCEPT !.ret = "raised", !.failed = @ \cup {kind} ]

\* except Exception: the failure is logged and the code goes on.
Logged(s, kind) == [ s EXCEPT !.failed = @ \cup {kind} ]

\* A body whose exceptions leave the function.
Unguarded(R, value) == R

\* try: ... except Exception as e: logger.error(...); return value
Guarded(R, value) == { IF r.ret = "raised" THEN Return(r, value) ELSE r : r \in R }

\* sorted(iterdir(), key=st_mtime, reverse=True): the later mtime comes
\* first, and equal mtimes stay in the order of iterdir(), which is here
\* the order of the names or its reverse.
SortsBefore(a, b, order) ==
    \/ a.mtime > b.mtime
    \/ /\ a.mtime = b.mtime
       /\ IF order = "reverse" THEN a.created > b.created ELSE a.created < b.created
IterdirOrders == {"names", "reverse"}

\* backups[:self.max_backup_count] of the sorted list.
Kept(B, order) ==
    { b \in B : Cardinality({ a \in B : SortsBefore(a, b, order) }) < max_backup_count }

\* _cleanup_old_backups: the first rmtree that fails ends the loop, and the
\* failure is logged only.
_cleanup_old_backups(s, c) ==
    IF Cardinality(s.backups) <= max_backup_count
    THEN {s}
    ELSE IF c.fault.kind = "prune"
    THEN { Logged(s, "prune") }
    ELSE { [ s EXCEPT !.backups = Kept(@, c.order) ] }

\* _load_metadata / append / _save_metadata: a save that fails is logged
\* only.
Journaled(s, c, event) ==
    IF c.fault.kind = "save"
    THEN Logged(s, "save")
    ELSE [ s EXCEPT !.journal.recovery_events = Append(@, event) ]

\* create_backup(reason).  c holds the second of the call, the creation
\* rank of the backup it makes, the fault and the order of iterdir().  A
\* journal that cannot be read makes _load_metadata recurse until it raises.
create_backup(s, reason, c) ==
    LET name == BackupName(c.now, reason)
        whole == BackupOf(s.chroma, c.now, reason, c.rank)
        part == [ whole EXCEPT !.files = [ f \in DOMAIN s.chroma.files \ {c.fault.file} |->
                                             s.chroma.files[f] ] ]
        copied == [ s EXCEPT !.backups = @ \cup {whole} ]
        saved == Journaled([ copied EXCEPT !.journal.last_backup = c.now ], c,
                           [ action |-> "backup_created", reason |-> reason,
                             backup_path |-> name ])
    IN  Guarded(
            IF ~s.chroma.exists
            THEN { Return(s, "None") }
            ELSE IF c.fault.kind = "backup_mkdir"
            THEN { Raise(s, "backup_mkdir") }
            ELSE IF \E b \in s.backups : Name(b) = name
            THEN { Raise(s, "exists") }
            ELSE IF c.fault.kind = "backup_file" /\ c.fault.file \in DOMAIN s.chroma.files
            THEN { Raise([ s EXCEPT !.backups = @ \cup {part} ], "backup_file") }
            ELSE IF c.fault.kind = "load"
            THEN { Raise(copied, "load") }
            ELSE { [ t EXCEPT !.ret = "path", !.path = name ] :
                     t \in _cleanup_old_backups(saved, c) },
            "None")

\* _recover_from_empty_files: the first unlink that fails ends the loop,
\* after the files that rglob gave before it.
_recover_from_empty_files(s, c) ==
    LET zero == EmptyFiles(s.chroma)
    IN  Guarded(
            IF c.fault.kind = "unlink" /\ c.fault.file \in zero
            THEN { Raise([ s EXCEPT !.chroma = Unlink(@, S, c.now) ], "unlink") :
                     S \in SUBSET (zero \ {c.fault.file}) }
            ELSE { Return([ s EXCEPT !.chroma = Unlink(@, zero, c.now) ], "True") },
            "False")

\* The files matching a pattern go; an unlink that fails is logged and the
\* loop goes on.
RemoveMatching(s, c, matching) ==
    IF c.fault.kind = "unlink" /\ c.fault.file \in matching
    THEN { Return(Logged([ s EXCEPT !.chroma = Unlink(@, matching \ {c.fault.file}, c.now) ],
                         "unlink"), "True") }
    ELSE { Return([ s EXCEPT !.chroma = Unlink(@, matching, c.now) ], "True") }

_recover_from_connection_failure(s, c) ==
    Guarded(
        IF s.chroma.exists
        THEN RemoveMatching(s, c, { f \in DOMAIN s.chroma.files : MatchSqlite(f) })
        ELSE { Return(s, "True") },
        "False")

_recover_from_index_corruption(s, c) ==
    Guarded(RemoveMatching(s, c, { f \in DOMAIN s.chroma.files : MatchBin(f) }), "False")

\* shutil.rmtree(chroma_path) raises on a file, after the files it
\* removed before it.
RmtreeFails(s, c) ==
    s.chroma.exists /\ c.fault.kind = "rmtree" /\ c.fault.file \in DOMAIN s.chroma.files

RmtreePartial(s, c) ==
    { Raise([ s EXCEPT !.chroma = Unlink(@, S, c.now) ], "rmtree") :
        S \in SUBSET (DOMAIN s.chroma.files \ {c.fault.file}) }

_full_reset_recovery(s, c) ==
    Guarded(
        IF RmtreeFails(s, c)
        THEN RmtreePartial(s, c)
        ELSE IF c.fault.kind = "mkdir"
        THEN { Raise([ s EXCEPT !.chroma = Absent ], "mkdir") }
        ELSE { Return([ s EXCEPT !.chroma = Dir(c.now, <<>>) ], "True") },
        "False")

\* A dispatch that resets whatever the corruption_type.
RecoverByReset(s, corruption_type, c) == _full_reset_recovery(s, c)

\* The dispatch of auto_recovery on corruption_type.
Recover(s, corruption_type, c) ==
    CASE corruption_type = "empty_files" -> _recover_from_empty_files(s, c)
      [] corruption_type = "connection_failure" -> _recover_from_connection_failure(s, c)
      [] corruption_type = "index_corruption" -> _recover_from_index_corruption(s, c)
      [] OTHER -> _full_reset_recovery(s, c)

\* auto_recovery(corruption_type): the backup, the recovery, the journal.
\* The path of the record handed back is backup_path.
auto_recovery(s, corruption_type, c) ==
    Guarded(
        UNION { { IF c.fault.kind = "load"
                  THEN Raise(r, "load")
                  ELSE Return(Journaled(r, c, [ corruption_type |-> corruption_type,
                                                success |-> r.ret = "True",
                                                backup_created |-> r.path ]),
                              r.ret) :
                    r \in Recover(b, corruption_type, c) } :
                b \in create_backup(s, PreRecovery(corruption_type), c) },
        "False")

\* backups[0] of the sorted list.
MostRecent(B, order) == { b \in B : \A a \in B : ~SortsBefore(a, b, order) }

\* The backup restore_from_backup selects: backup_path / backup_name when
\* a name is given, the first of the sorted backups otherwise.
Selected(B, backup_name, order) ==
    IF backup_name # NoName
    THEN { b \in B : Name(b) = backup_name }
    ELSE MostRecent(B, order)

\* restore_from_backup(backup_name); NoName is the call without a name.
\* The path of the record handed back is backup_dir.
restore_from_backup(s, backup_name, c) ==
    Guarded(
        IF Selected(s.backups, backup_name, c.order) = {}
        THEN { Return(s, "False") }
        ELSE UNION { { [ t EXCEPT !.path = Name(sel) ] :
                         t \in UNION {
                            IF RmtreeFails(b, c)
                            THEN RmtreePartial(b, c)
                            ELSE IF sel \notin b.backups
                            THEN { Raise([ b EXCEPT !.chroma = Absent ], "missing") }
                            ELSE IF c.fault.kind = "restore_file"
                                    /\ c.fault.file \in DOMAIN sel.files
                            THEN { Raise([ b EXCEPT !.chroma =
                                             Dir(sel.mtime,
                                                 [ f \in DOMAIN sel.files \ {c.fault.file} |->
                                                     sel.files[f] ]) ], "restore_file") }
                            ELSE { Return([ b EXCEPT !.chroma = Dir(sel.mtime, sel.files) ],
                                          "True") } :
                              b \in create_backup(s, PreRestore, c) } } :
                     sel \in Selected(s.backups, backup_name, c.order) },
        "False")

\* chromadb.PersistentClient(path=chroma_path, ...): opening the directory
\* writes chroma.sqlite3 when it is not there or holds nothing.
PersistentClient(d, now) ==
    IF SqliteFile \in DOMAIN d.files /\ d.files[SqliteFile] # 0
    THEN d
    ELSE Dir(now, [ f \in DOMAIN d.files \cup {SqliteFile} |->
                      IF f = SqliteFile THEN 1 ELSE d.files[f] ])

\* What fails during a health_check: os.access, stat() of a file, the
\* client or list_collections, get_collection or count, the query test, the
\* load and the save of the metadata.
HealthFaults == {"access", "stat", "connect", "collection", "query", "load", "save"}

\* health_check(): the report is "healthy" or "unhealthy".
health_check(s, c) ==
    LET k == c.fault.kind
        opened == IF k = "connect" THEN s ELSE [ s EXCEPT !.chroma = PersistentClient(@, c.now) ]
        healthy == k \notin {"access", "connect", "query"}
        report == IF healthy THEN "healthy" ELSE "unhealthy"
    IN  IF ~s.chroma.exists
        THEN { Return(s, "unhealthy") }
        ELSE IF k = "stat"
        THEN { Return(Logged(s, k), "unhealthy") }
        ELSE IF k = "load"
        THEN { Return(Logged(opened, k), "unhealthy") }
        ELSE IF k = "save"
        THEN { Return(Logged(opened, k), report) }
        ELSE { Return([ opened EXCEPT !.journal.last_health_check = c.now,
                                      !.journal.corruption_events =
                                          IF healthy
                                          THEN @
                                          ELSE Append(@, [ timestamp |-> c.now,
                                                           healthy |-> FALSE,
                                                           issue |-> k ]) ],
                      report) }

\* The manager after construction, with the backups that earlier runs left
\* beside the index directory: k manual backups a second apart, of an index
\* directory written before each of them, or never written (tied).
Healthy == [ f \in IndexFiles |-> 1 ]
Earlier(k, tied) ==
    { [ ts |-> i, reason |-> Manual, mtime |-> IF tied THEN 0 ELSE i, files |-> Healthy,
        created |-> i ] : i \in (max_backup_count - k + 1) .. max_backup_count }
NoCall == [ op |-> "none", arg |-> NoName, ret |-> "None", path |-> NoName, failed |-> {} ]

InitManager(seeds, dirs) ==
    /\ backups \in seeds
    /\ chroma \in dirs
    /\ journal = NoJournal
    /\ clock = Start
    /\ ncall = 0
    /\ done = NoCall

\* The second of a call, the creation rank of its backup, its fault and
\* the order in which iterdir() gives the backups.
Ctx(fault, order) == [ now |-> clock, rank |-> Start + ncall, fault |-> fault, order |-> order ]
ManagerFaults(kinds) == IF nfault < lim.faults THEN CallFaults(kinds) ELSE {NoFault}

\* One call of the manager: it runs to its return.
Called(op, arg, fault, results) ==
    /\ ncall < MaxCalls
    /\ \E r \in results :
          /\ chroma' = r.chroma
          /\ backups' = r.backups
          /\ journal' = r.journal
          /\ done' = [ op |-> op, arg |-> arg, ret |-> r.ret, path |-> r.path,
                       failed |-> r.failed ]
    /\ ncall' = ncall + 1
    /\ nfault' = IF fault = NoFault THEN nfault ELSE nfault + 1
    /\ UNCHANGED <<files, index, brokerUp, queue, state, execs, ex, nsub, nfs, lim, wvars,
                   answer, clock, cvars, svars, mvars>>

CreateBackup ==
    \E fault \in ManagerFaults(BackupFaults), order \in IterdirOrders :
        Called("create_backup", BackupName(0, Manual), fault,
               create_backup(Mgr(chroma, backups, journal), Manual, Ctx(fault, order)))

AutoRecovery ==
    \E corruption_type \in CorruptionTypes, fault \in ManagerFaults(RecoveryFaults),
       order \in IterdirOrders :
        Called("auto_recovery", BackupName(0, PreRecovery(corruption_type)), fault,
               auto_recovery(Mgr(chroma, backups, journal), corruption_type, Ctx(fault, order)))

\* The names a caller passes: none, the first backup made of those that
\* are there, one that is not there.
RestoreNames ==
    {NoName, BackupName(0, Manual)}
        \cup { Name(b) : b \in { b \in backups : \A k \in backups : b.created <= k.created } }

RestoreFromBackup ==
    \E backup_name \in RestoreNames, fault \in ManagerFaults(RestoreFaults),
       order \in IterdirOrders :
        Called("restore_from_backup", backup_name, fault,
               restore_from_backup(Mgr(chroma, backups, journal), backup_name,
                                   Ctx(fault, order)))

HealthCheck ==
    \E fault \in ManagerFaults(HealthFaults) :
        Called("health_check", NoName, fault,
               health_check(Mgr(chroma, backups, journal), Ctx(fault, "names")))

\* chroma_metadata.json as _load_metadata finds it: a file it can read, no
\* file, or a file that open() or json.load() fails on.
MetadataFiles == {"readable", "missing", "unreadable"}

\* _init_metadata(): the file is written when it does not exist; saved
\* says whether the write of _save_metadata, whose failure is logged only,
\* succeeds.
_init_metadata(file, saved) == IF file = "missing" /\ saved THEN "readable" ELSE file

\* _load_metadata(): the content of the file, or, when reading fails,
\* _init_metadata() and the result of _load_metadata() called again; past
\* MaxDepth frames the interpreter raises RecursionError.
RECURSIVE _load_metadata(_, _, _, _)
_load_metadata(s, file, saved, depth) ==
    IF depth > MaxDepth THEN Raise(s, "recursion")
    ELSE IF file = "readable"
    THEN Return(IF depth = 1 THEN s ELSE [ s EXCEPT !.journal = NoJournal ], "dict")
    ELSE _load_metadata(s, _init_metadata(file, saved), saved, depth + 1)

LoadMetadata ==
    \E file \in MetadataFiles, saved \in BOOLEAN :
        Called("_load_metadata", file, NoFault,
               { _load_metadata(Mgr(chroma, backups, journal), file, saved, 1) })

\* A second passes before a call.
Tick ==
    /\ ncall < MaxCalls
    /\ clock < Start + MaxTicks
    /\ clock' = clock + 1
    /\ UNCHANGED <<ivars, wvars, answer, chroma, backups, journal, ncall, done, cvars, svars, mvars>>

(***************************************************************************)
(* The store clients of one process: the ChromaDBManager singleton         *)
(* (chromadb_manager.py) and the sites that construct a client of their    *)
(* own.  Objects are numbered from 1 in the order of their construction,   *)
(* and 0 is None.                                                          *)
(***************************************************************************)
Threads == {"t1", "t2"}

\* chromadb.Settings(...) as a site passes it, the other fields at their
\* defaults; PersistentClient sets is_persistent itself.
Settings(anonymized_telemetry, allow_reset) ==
    [ anonymized_telemetry |-> anonymized_telemetry, allow_reset |-> allow_reset,
      is_persistent |-> TRUE ]
ManagerSettings == Settings(FALSE, TRUE)
SearchSettings == Settings(FALSE, TRUE)
DefaultSettings == Settings(TRUE, FALSE)

\* chromadb.PersistentClient(path=CHROMA_DB_PATH, settings=...) at a site:
\* the client it gives, when it does not raise.
NewClient(site, settings) ==
    [ id |-> Cardinality(clients) + 1, site |-> site, settings |-> settings ]
ClientOutcomes == {"ok", "raise"}

InitProcess ==
    /\ _instance = 0
    /\ _lock = "free"
    /\ _client = 0
    /\ clients = {}
    /\ threads = [ th \in Threads |-> [ pc |-> "idle", manager |-> 0, client |-> 0, n |-> 0 ] ]
    /\ _embeddings = 0
    /\ _vector_store = 0

\* The process once backend.chromadb_manager is imported: line 191 has
\* constructed the manager, and get_chroma_manager() hands it to every
\* thread.
InitImported ==
    /\ _instance = 1
    /\ _lock = "free"
    /\ _client = 0
    /\ clients = {}
    /\ threads = [ th \in Threads |-> [ pc |-> "idle", manager |-> 1, client |-> 0, n |-> 0 ] ]
    /\ _embeddings = 0
    /\ _vector_store = 0

\* The assignment under the lock without the second test.
AssignUnchecked(cur, fresh) == fresh

\* if x is None: x = fresh, under the lock (lines 30-31 and 61-75)
AssignIfNone(cur, fresh) == IF cur = 0 THEN fresh ELSE cur

\* A step of thread th that changes the fields upd of its record.
ThreadStep(th, upd) ==
    /\ threads' = [ threads EXCEPT ![th] = upd ]
    /\ UNCHANGED <<ivars, wvars, answer, rvars, svars, mvars>>

\* ChromaDBManager(), which get_chroma_manager's module runs on import:
\* __new__ up to the lock, or to its return when the instance is there
\* (__init__ changes nothing that is modelled).
NewEnter(th) ==
    /\ threads[th].pc = "idle"
    /\ threads[th].n < MaxCalls
    /\ ThreadStep(th, IF _instance = 0
                      THEN [ threads[th] EXCEPT !.pc = "new_wait", !.n = @ + 1 ]
                      ELSE [ threads[th] EXCEPT !.manager = _instance, !.n = @ + 1 ])
    /\ UNCHANGED <<_instance, _lock, _client, clients>>

\* with cls._lock:
Acquire(th, from, to) ==
    /\ threads[th].pc = from
    /\ _lock = "free"
    /\ _lock' = th
    /\ ThreadStep(th, [ threads[th] EXCEPT !.pc = to ])
    /\ UNCHANGED <<_instance, _client, clients>>

NewLock(th) == Acquire(th, "new_wait", "new_locked")

\* Lines 30-32 under the lock, the release and the return.
NewMake(th) ==
    /\ threads[th].pc = "new_locked"
    /\ _instance' = AssignIfNone(_instance, _instance + 1)
    /\ _lock' = "free"
    /\ ThreadStep(th, [ threads[th] EXCEPT !.pc = "idle", !.manager = _instance' ])
    /\ UNCHANGED <<_client, clients>>

\* get_client() of the manager the thread holds, up to the lock or to the
\* return.
ClientEnter(th) ==
    /\ threads[th].pc = "idle"
    /\ threads[th].n < MaxCalls
    /\ threads[th].manager # 0
    /\ ThreadStep(th, IF _client = 0
                      THEN [ threads[th] EXCEPT !.pc = "client_wait", !.n = @ + 1 ]
                      ELSE [ threads[th] EXCEPT !.client = _client, !.n = @ + 1 ])
    /\ UNCHANGED <<_instance, _lock, _client, clients>>

ClientLock(th) == Acquire(th, "client_wait", "client_locked")

\* Lines 61-78 under the lock: a construction that raises leaves _client
\* None and the call.
ClientMake(th) ==
    /\ threads[th].pc = "client_locked"
    /\ \E outcome \in ClientOutcomes :
          LET fresh == NewClient("manager", ManagerSettings)
              made == AssignIfNone(_client, fresh.id)
          IN  IF made = _client
              THEN /\ UNCHANGED <<_client, clients>>
                   /\ ThreadStep(th, [ threads[th] EXCEPT !.pc = "idle", !.client = _client ])
              ELSE IF outcome = "raise"
              THEN /\ UNCHANGED <<_client, clients>>
                   /\ ThreadStep(th, [ threads[th] EXCEPT !.pc = "idle" ])
              ELSE /\ _client' = made
                   /\ clients' = clients \cup {fresh}
                   /\ ThreadStep(th, [ threads[th] EXCEPT !.pc = "idle", !.client = made ])
    /\ _lock' = "free"
    /\ UNCHANGED _instance

\* A step of thread th in which the manager's fields other than the two
\* of mvars stay as they are.
StoreStep(th, upd) ==
    /\ threads' = [ threads EXCEPT ![th] = upd ]
    /\ UNCHANGED <<ivars, wvars, answer, rvars, svars, _instance, _client, clients>>

\* get_embeddings() of the manager the thread holds, up to the lock or to
\* the return.
EmbedEnter(th) ==
    /\ threads[th].pc = "idle"
    /\ threads[th].n < MaxCalls
    /\ threads[th].manager # 0
    /\ ThreadStep(th, [ threads[th] EXCEPT !.pc = IF _embeddings = 0 THEN "embed_wait" ELSE "idle",
                                           !.n = @ + 1 ])
    /\ UNCHANGED <<_instance, _lock, _client, clients>>

EmbedLock(th) == Acquire(th, "embed_wait", "embed_locked")

\* Lines 43-54 under the lock: a model that fails to load leaves
\* _embeddings None and the call.
EmbedMake(th) ==
    /\ threads[th].pc = "embed_locked"
    /\ \E outcome \in ClientOutcomes :
          _embeddings' = IF outcome = "ok" THEN AssignIfNone(_embeddings, 1) ELSE _embeddings
    /\ _lock' = "free"
    /\ StoreStep(th, [ threads[th] EXCEPT !.pc = "idle" ])
    /\ UNCHANGED _vector_store

\* get_vector_store() of the manager the thread holds, up to the lock of
\* line 83 or to the return of line 108.
StoreEnter(th) ==
    /\ threads[th].pc = "idle"
    /\ threads[th].n < MaxCalls
    /\ threads[th].manager # 0
    /\ ThreadStep(th, [ threads[th] EXCEPT !.pc = IF _vector_store = 0 THEN "store_wait" ELSE "idle",
                                           !.n = @ + 1 ])
    /\ UNCHANGED <<_instance, _lock, _client, clients>>

\* Where a thread of get_vector_store is once it holds the lock it waits
\* for: in the body of line 84, or in the body of get_client (line 61) or
\* of get_embeddings (line 43) that line 85 or 86 has called.
StoreWaits == {"store_wait", "store_client_wait", "store_embed_wait"}
Locked(from) ==
    CASE from = "store_wait" -> "store_locked"
      [] from = "store_client_wait" -> "store_client_locked"
      [] from = "store_embed_wait" -> "store_embed_locked"

\* with self._lock: at line 83, and at lines 60 and 42 in the calls of
\* lines 85 and 86.
StoreLock(th) == \E from \in StoreWaits : Acquire(th, from, Locked(from))

\* Lines 84-106 with the lock of line 83 held: self.get_client() goes to
\* its own "with self._lock" when there is no client, self.get_embeddings()
\* to its own when there are no embeddings; with both there the store is
\* made (or the collection calls raise), the lock released and the call
\* returns.
StoreMake(th) ==
    /\ threads[th].pc = "store_locked"
    /\ IF _vector_store # 0
       THEN /\ _lock' = "free"
            /\ StoreStep(th, [ threads[th] EXCEPT !.pc = "idle" ])
            /\ UNCHANGED mvars
       ELSE IF _client = 0
       THEN /\ StoreStep(th, [ threads[th] EXCEPT !.pc = "store_client_wait" ])
            /\ UNCHANGED <<_lock, mvars>>
       ELSE IF _embeddings = 0
       THEN /\ StoreStep(th, [ threads[th] EXCEPT !.pc = "store_embed_wait" ])
            /\ UNCHANGED <<_lock, mvars>>
       ELSE /\ \E outcome \in ClientOutcomes :
                  _vector_store' = IF outcome = "ok" THEN 1 ELSE _vector_store
            /\ _lock' = "free"
            /\ StoreStep(th, [ threads[th] EXCEPT !.pc = "idle" ])
            /\ UNCHANGED _embeddings

\* A site that constructs a client of its own in thread th.
SiteOpen(th, site, settings) ==
    /\ threads[th].pc = "idle"
    /\ threads[th].n < MaxCalls
    /\ \E outcome \in ClientOutcomes :
          clients' = IF outcome = "ok" THEN clients \cup {NewClient(site, settings)} ELSE clients
    /\ ThreadStep(th, [ threads[th] EXCEPT !.n = @ + 1 ])
    /\ UNCHANGED <<_instance, _lock, _client>>

\* process_document_task and process_document_sync:
\* chromadb.PersistentClient(path=settings.CHROMA_DB_PATH)
IngestOpen(th) == SiteOpen(th, "ingest", DefaultSettings)

\* _run_knowledge_base_search: chromadb.PersistentClient(path=...,
\* settings=chromadb.Settings(anonymized_telemetry=False, allow_reset=True))
SearchOpen(th) == SiteOpen(th, "search", SearchSettings)

(***************************************************************************)
(* The scheduled reports of neuralstark/main.py.  The file is a text, a    *)
(* sequence of characters; json.dump writes a list of reports as one and   *)
(* json.load reads one back or raises.                                     *)
(***************************************************************************)
ReportNames == { <<"a">>, <<"b", "b">> }
Intervals == { "1", "60" }
\* ScheduleReportRequest, lines 56-60 (tool_name and tool_input left out).
Requests == [ name : ReportNames, interval_minutes : Intervals ]
Reports == [ name : ReportNames, interval_minutes : Intervals, last_run : {"null"} ]
ReportLists == UNION { [ 1..n -> Reports ] : n \in 0..MaxReports }

Enc(r) == <<"{">> \o r.name \o <<":", r.interval_minutes, ":", r.last_run, "}">>
RECURSIVE Joined(_)
Joined(list) ==
    IF list = <<>> THEN <<>>
    ELSE IF Len(list) = 1 THEN Enc(list[1])
    ELSE Enc(Head(list)) \o <<",">> \o Joined(Tail(list))
json_dump(list) == <<"[">> \o Joined(list) \o <<"]">>

RECURSIVE Stripped(_)
Stripped(text) ==
    IF text # <<>> /\ text[Len(text)] = "\n"
    THEN Stripped(SubSeq(text, 1, Len(text) - 1))
    ELSE text
\* json.load: the list the text is a document of, or JSONDecodeError.
json_load(text) ==
    IF \E l \in ReportLists : json_dump(l) = Stripped(text)
    THEN [ ok |-> TRUE, list |-> CHOOSE l \in ReportLists : json_dump(l) = Stripped(text) ]
    ELSE [ ok |-> FALSE, list |-> <<>> ]

\* f.seek(0) and a write into a file opened "r+": the text from the
\* start, and what the file held beyond it.
Overwritten(old, new) == new \o SubSeq(old, Len(new) + 1, Len(old))

\* A list that holds the new report alone.
Replaced(list, new_schedule) == <<new_schedule>>
\* schedules.append(new_schedule)
Appended(list, new_schedule) == Append(list, new_schedule)

NoGet == [ n |-> 0, raised |-> FALSE, result |-> <<>> ]
InitSchedules ==
    /\ schedules = None
    /\ created = <<>>
    /\ got = NoGet

\* The file as a deployment provides it: an empty list, with or without
\* a final newline.
ProvideSchedules ==
    /\ schedules = None
    /\ schedules' \in { json_dump(<<>>), json_dump(<<>>) \o <<"\n">> }
    /\ UNCHANGED <<ivars, wvars, answer, rvars, cvars, created, got, mvars>>

create_scheduled_report(request) ==
    /\ Len(created) < MaxReports
    /\ IF schedules = None \/ ~json_load(schedules).ok
       THEN UNCHANGED <<schedules, created>>
       ELSE LET new_schedule == [ name |-> request.name,
                                  interval_minutes |-> request.interval_minutes,
                                  last_run |-> "null" ]
                list == Appended(json_load(schedules).list, new_schedule)
            IN  /\ schedules' = Overwritten(schedules, json_dump(list))
                /\ created' = Append(created, request.name)
    /\ UNCHANGED <<ivars, wvars, answer, rvars, cvars, got, mvars>>

get_scheduled_reports ==
    /\ got' = IF schedules = None \/ ~json_load(schedules).ok
              THEN [ n |-> Len(created), raised |-> TRUE, result |-> <<>> ]
              ELSE [ n |-> Len(created), raised |-> FALSE,
                     result |-> json_load(schedules).list ]
    /\ UNCHANGED <<ivars, wvars, answer, rvars, cvars, schedules, created, mvars>>

\* The file tree in which each of the paths holds one of fs and nothing
\* else exists.
Tree(paths, fs) ==
    [ p \in NormPaths |->
        IF p \in { abspath(r) : r \in paths } THEN fs ELSE {Missing} ]

InitFrom(l, idx) ==
    /\ lim = l
    /\ files \in { f \in [ NormPaths -> UNION { l.files[p] : p \in NormPaths } ] :
                    \A p \in NormPaths : f[p] \in l.files[p] }
    /\ index = idx
    /\ brokerUp = TRUE
    /\ queue = EmptyBag
    /\ state = [ j \in JobIds |-> NoResult ]
    /\ execs = [ j \in JobIds |-> 0 ]
    /\ ex = [ x \in Executors |-> Idle ]
    /\ nsub = 0
    /\ nfs = 0
    /\ nfault = 0
    /\ watch = NoEvent
    /\ nev = 0
    /\ answer = NoQuery
    /\ InitSchedules

InitCore(l) == InitFrom(l, EmptyBag)

InitBase(l) == InitCore(l) /\ InitProcess

\* The runs of the ingestion, the watcher and the query path leave the
\* manager alone.
InitWith(l) ==
    /\ InitBase(l)
    /\ InitManager({{}}, {Dir(Start, Healthy)})

\* Runs about one document, named by two spellings of its path, by one
\* worker of the pool and the API process.
Init == InitWith([ jobs |-> Cardinality(JobIds), workers |-> {"w1"}, faults |-> MaxFaults,
                   fs |-> MaxFsOps, paths |-> {PathA, PathARel},
                   files |-> Tree({PathA, PathARel}, FileStates) ])

(***************************************************************************)
(* The environment: the file tree changes, the broker comes and goes.      *)
(***************************************************************************)
WriteFile(p, f) ==
    /\ nfs < lim.fs
    /\ p \in { abspath(r) : r \in lim.paths }
    /\ f \in lim.files[p]
    /\ files[p] # f
    /\ files' = [files EXCEPT ![p] = f]
    /\ nfs' = nfs + 1
    /\ UNCHANGED <<index, brokerUp, queue, state, execs, ex, nsub, nfault, lim, wvars, answer, rvars, cvars, svars, mvars>>

BrokerFlip ==
    /\ brokerUp' = ~brokerUp
    /\ UNCHANGED <<files, index, queue, state, execs, ex, nsub, nfs, nfault, lim, wvars, answer, rvars, cvars, svars, mvars>>

\* process_document_task.delay(file_path, event_type) with the broker
\* reachable: the message is queued under a fresh task id.
Delay(file_path, event_type) ==
    /\ nsub < lim.jobs
    /\ brokerUp
    /\ nsub' = nsub + 1
    /\ queue' = queue (+) SetToBag({ Msg(nsub + 1, file_path, event_type, 0) })
    /\ state' = [state EXCEPT ![nsub + 1] =
                    Result("PENDING", Msg(nsub + 1, file_path, event_type, 0))]

Faults == IF nfault < lim.faults THEN BOOLEAN ELSE {TRUE}
Spend(ok) == nfault' = IF ok THEN nfault ELSE nfault + 1

(***************************************************************************)
(* process_document_task.  An action runs the task body up to and          *)
(* including its next operation on the index.                              *)
(***************************************************************************)
\* texts = [text for text in split_text(extracted_text) if text and text.strip()]
\* and the return of no_content when nothing is left.
TaskSplit(w, m, text, own, exf) ==
    LET texts == FilterTexts(split_text(text)) IN
    IF texts = <<>>
    THEN /\ state' = [state EXCEPT ![m.id] = Result("no_content", m)]
         /\ ex' = [exf EXCEPT ![w] = Idle]
    ELSE /\ state' = [state EXCEPT ![m.id] = Result("STARTED", m)]
         /\ ex' = [exf EXCEPT ![w] =
                [ pc |-> "add", msg |-> m, texts |-> texts, i |-> 0, own |-> own ]]

\* The retry of the outer handler (line 183).
TaskRetry(w, m, q) ==
    /\ queue' = RetrySend(q, m)
    /\ state' = [state EXCEPT ![m.id] = Result(RetryState(m), m)]
    /\ ex' = [ex EXCEPT ![w] = Idle]

\* event_type == "deleted": the delete; when it raises, the retry raised
\* inside the outer try block is caught by the outer handler, which
\* retries again.
TaskDeleted(w, m, q, ok) ==
    IF ok
    THEN /\ index' = DeleteWhere(index, abspath(m.file_path))
         /\ state' = [state EXCEPT ![m.id] = Result("deleted", m)]
         /\ queue' = q
         /\ ex' = [Disturb(ex, w, abspath(m.file_path)) EXCEPT ![w] = Idle]
    ELSE /\ index' = index
         /\ TaskRetry(w, m, RetrySend(q, m))

\* parse_document and the test of extracted_text.
TaskParse(w, m, q) ==
    LET text == parse_document(files, m.file_path) IN
    /\ queue' = q
    /\ index' = index
    /\ IF ~Truthy(text)
       THEN /\ state' = [state EXCEPT ![m.id] = Result("failed_extraction", m)]
            /\ ex' = [ex EXCEPT ![w] = Idle]
       ELSE IF m.event_type = "modified"
       THEN /\ state' = [state EXCEPT ![m.id] = Result("STARTED", m)]
            /\ ex' = [ex EXCEPT ![w] = [ pc |-> "delete_old", msg |-> m, text |-> text ]]
       ELSE TaskSplit(w, m, text, FALSE, ex)

\* A worker takes a message and enters the task body: the splitter, the
\* client, the embeddings and the vector store are constructed, then the
\* event is handled up to its first index operation.
TaskStart(w) ==
    /\ ex[w].pc = "idle"
    /\ \E m \in BagToSet(queue) :
        LET q == queue (-) SetToBag({m}) IN
        /\ execs' = [execs EXCEPT ![m.id] = @ + 1]
        /\ \E ok \in Faults :
            /\ Spend(ok)
            /\ IF m.event_type = "deleted"
               THEN \E constructed \in BOOLEAN :
                        IF ~ok /\ ~constructed
                        THEN /\ index' = index
                             /\ TaskRetry(w, m, q)
                        ELSE TaskDeleted(w, m, q, ok)
               ELSE IF ~ok
               THEN /\ index' = index
                    /\ TaskRetry(w, m, q)
               ELSE TaskParse(w, m, q)
    /\ UNCHANGED <<files, brokerUp, nsub, nfs, lim, wvars, answer, rvars, cvars, svars, mvars>>

\* A delete of the old chunks whose failure reaches the outer handler.
TaskDeleteOldStrict(w) ==
    /\ ex[w].pc = "delete_old"
    /\ LET m == ex[w].msg IN
       \E ok \in Faults :
        /\ Spend(ok)
        /\ IF ok
           THEN /\ index' = DeleteWhere(index, abspath(m.file_path))
                /\ queue' = queue
                /\ TaskSplit(w, m, ex[w].text, ok, Disturb(ex, w, abspath(m.file_path)))
           ELSE /\ index' = index
                /\ TaskRetry(w, m, queue)
    /\ UNCHANGED <<files, brokerUp, execs, nsub, nfs, lim, wvars, answer, rvars, cvars, svars, mvars>>

\* event_type == "modified": best-effort delete of the old chunks, then the
\* split.
TaskDeleteOld(w) ==
    /\ ex[w].pc = "delete_old"
    /\ LET m == ex[w].msg IN
       \E ok \in Faults :
        /\ Spend(ok)
        /\ index' = IF ok THEN DeleteWhere(index, abspath(m.file_path)) ELSE index
        /\ TaskSplit(w, m, ex[w].text, ok,
                     IF ok THEN Disturb(ex, w, abspath(m.file_path)) ELSE ex)
    /\ UNCHANGED <<files, brokerUp, queue, execs, nsub, nfs, lim, wvars, answer, rvars, cvars, svars, mvars>>

\* One add_texts call: the whole document, or one batch of batch_size.
\* os.path.getmtime raises when the file is gone.
TaskAddTexts(w) ==
    /\ ex[w].pc = "add"
    /\ LET m == ex[w].msg
           texts == ex[w].texts
           i == ex[w].i
           exd == Disturb(ex, w, abspath(m.file_path)) IN
       \E ok \in Faults :
        /\ Spend(ok)
        /\ IF ok /\ files[abspath(m.file_path)].st # "missing"
           THEN /\ index' = AddTexts(index, BatchEntries(m.file_path, m.event_type, texts, i))
                /\ queue' = queue
                /\ IF Batched(texts) /\ i + batch_size < Len(texts)
                   THEN /\ ex' = [exd EXCEPT ![w].i = i + batch_size]
                        /\ state' = state
                   ELSE /\ ex' = [exd EXCEPT ![w] = Idle]
                        /\ state' = [state EXCEPT ![m.id] = Result("indexed", m)]
           ELSE /\ index' = index
                /\ TaskRetry(w, m, queue)
    /\ UNCHANGED <<files, brokerUp, execs, nsub, nfs, lim, wvars, answer, rvars, cvars, svars, mvars>>

(***************************************************************************)
(* process_document_sync, in the thread that called it.                    *)
(***************************************************************************)
SyncReturn(m, status, exf) ==
    /\ state' = [state EXCEPT ![m.id] = Result(status, m)]
    /\ ex' = [exf EXCEPT ![Api] = Idle]

\* The split without the filter of line 245.
SyncSplitUnfiltered(m, text, own, exf) ==
    LET texts == split_text(text) IN
    IF texts = <<>>
    THEN SyncReturn(m, "no_content", exf)
    ELSE /\ state' = [state EXCEPT ![m.id] = Result("STARTED", m)]
         /\ ex' = [exf EXCEPT ![Api] =
                [ pc |-> "add", msg |-> m, texts |-> texts, i |-> 0, own |-> own ]]

SyncSplit(m, text, own, exf) ==
    LET texts == FilterTexts(split_text(text)) IN
    IF texts = <<>>
    THEN SyncReturn(m, "no_content", exf)
    ELSE /\ state' = [state EXCEPT ![m.id] = Result("STARTED", m)]
         /\ ex' = [exf EXCEPT ![Api] =
                [ pc |-> "add", msg |-> m, texts |-> texts, i |-> 0, own |-> own ]]

\* The body up to its first index operation.
SyncStart(m) ==
    /\ ex[Api].pc = "idle"
    /\ execs' = [execs EXCEPT ![m.id] = @ + 1]
    /\ \E ok \in Faults :
        /\ Spend(ok)
        /\ IF ~ok
           THEN /\ index' = index
                /\ SyncReturn(m, "error", ex)
           ELSE IF m.event_type = "deleted"
           THEN /\ index' = DeleteWhere(index, abspath(m.file_path))
                /\ SyncReturn(m, "deleted", Disturb(ex, Api, abspath(m.file_path)))
           ELSE LET text == parse_document(files, m.file_path) IN
                /\ index' = index
                /\ IF ~Truthy(text)
                   THEN SyncReturn(m, "failed_extraction", ex)
                   ELSE IF m.event_type = "modified"
                   THEN /\ state' = [state EXCEPT ![m.id] = Result("STARTED", m)]
                        /\ ex' = [ex EXCEPT ![Api] =
                               [ pc |-> "delete_old", msg |-> m, text |-> text ]]
                   ELSE SyncSplit(m, text, FALSE, ex)

SyncDeleteOld ==
    /\ ex[Api].pc = "delete_old"
    /\ LET m == ex[Api].msg IN
       \E ok \in Faults :
        /\ Spend(ok)
        /\ index' = IF ok THEN DeleteWhere(index, abspath(m.file_path)) ELSE index
        /\ SyncSplit(m, ex[Api].text, ok,
                     IF ok THEN Disturb(ex, Api, abspath(m.file_path)) ELSE ex)
    /\ UNCHANGED <<files, brokerUp, queue, execs, nsub, nfs, lim, wvars, answer, rvars, cvars, svars, mvars>>

SyncAddTexts ==
    /\ ex[Api].pc = "add"
    /\ LET m == ex[Api].msg
           texts == ex[Api].texts
           i == ex[Api].i
           exd == Disturb(ex, Api, abspath(m.file_path)) IN
       \E ok \in Faults :
        /\ Spend(ok)
        /\ IF ok /\ files[abspath(m.file_path)].st # "missing"
           THEN /\ index' = AddTexts(index, BatchEntries(m.file_path, m.event_type, texts, i))
                /\ IF Batched(texts) /\ i + batch_size < Len(texts)
                   THEN /\ ex' = [exd EXCEPT ![Api].i = i + batch_size]
                        /\ state' = state
                   ELSE SyncReturn(m, "indexed", exd)
           ELSE /\ index' = index
                /\ SyncReturn(m, "error", ex)
    /\ UNCHANGED <<files, brokerUp, queue, execs, nsub, nfs, lim, wvars, answer, rvars, cvars, svars, mvars>>

(***************************************************************************)
(* dispatch_document_processing                                            *)
(***************************************************************************)
dispatch_document_processing(file_path, event_type) ==
    /\ nsub < lim.jobs
    /\ IF brokerUp
       THEN /\ Delay(file_path, event_type)
            /\ UNCHANGED <<files, index, brokerUp, execs, ex, nfs, nfault, lim, wvars, answer, rvars, cvars, svars, mvars>>
       ELSE /\ nsub' = nsub + 1
            /\ SyncStart(Msg(nsub + 1, file_path, event_type, 0))
            /\ UNCHANGED <<files, brokerUp, queue, nfs, lim, wvars, answer, rvars, cvars, svars, mvars>>

(***************************************************************************)
(* DocumentEventHandler: the watcher's thread calls one handler per event. *)
(* delay() raises when the broker cannot be reached; the handlers do not   *)
(* catch it.                                                               *)
(***************************************************************************)
DirPaths == { INTERNAL_KNOWLEDGE_BASE_PATH, EXTERNAL_KNOWLEDGE_BASE_PATH }

Events ==
    { [ src_path |-> p, is_directory |-> FALSE ] : p \in lim.paths }
    \cup { [ src_path |-> d, is_directory |-> TRUE ] : d \in DirPaths }

Handled(e, kind, calls, outcome) ==
    [ kind |-> kind, event |-> e, calls |-> calls, outcome |-> outcome ]

\* A handler without the test of event.is_directory.
HandleAny(e, kind) ==
    /\ nev < MaxEvents
    /\ nev' = nev + 1
    /\ LET call == [ file_path |-> e.src_path, event_type |-> kind ] IN
       IF brokerUp
       THEN /\ Delay(e.src_path, kind)
            /\ watch' = Handled(e, kind, <<call>>, "enqueued")
            /\ UNCHANGED <<files, index, brokerUp, execs, ex, nfs, nfault, lim, answer, rvars, cvars, svars, mvars>>
       ELSE /\ watch' = Handled(e, kind, <<call>>, "raised")
            /\ UNCHANGED <<ivars, answer, rvars, cvars, svars, mvars>>
\* if not event.is_directory: process_document_task.delay(event.src_path, kind)
Handle(e, kind) ==
    /\ nev < MaxEvents
    /\ nev' = nev + 1
    /\ IF e.is_directory
       THEN /\ watch' = Handled(e, kind, <<>>, "ignored")
            /\ UNCHANGED <<ivars, answer, rvars, cvars, svars, mvars>>
       ELSE LET call == [ file_path |-> e.src_path, event_type |-> kind ] IN
            IF brokerUp
            THEN /\ Delay(e.src_path, kind)
                 /\ watch' = Handled(e, kind, <<call>>, "enqueued")
                 /\ UNCHANGED <<files, index, brokerUp, execs, ex, nfs, nfault, lim, answer, rvars, cvars, svars, mvars>>
            ELSE /\ watch' = Handled(e, kind, <<call>>, "raised")
                 /\ UNCHANGED <<ivars, answer, rvars, cvars, svars, mvars>>

on_created(e) == Handle(e, "created")

on_modified(e) == Handle(e, "modified")

on_deleted(e) == Handle(e, "deleted")

(***************************************************************************)
(* The knowledge-base search.  Distances and rerank scores are those of    *)
(* one fixed query text; scores are in hundredths.                         *)
(***************************************************************************)
\* Cosine distance of a chunk's text from the query.
Dist(text) ==
    CASE text = "A" -> 10
      [] text = "B" -> 40
      [] text = "C" -> 70
      [] text = "D" -> 75
      [] text = "E" -> 85
      [] text = "F" -> 95
      [] OTHER -> 100

\* The cross-encoders the reranker may be: one that reverses the order of
\* the distances, one that scores every pair alike.
Rerankers == {"reverse", "flat"}
RerankOutcomes == Rerankers \cup {"raises"}
predict(reranker, text) ==
    CASE reranker = "reverse" -> Dist(text)
      [] OTHER -> 0

\* The order in which the store returns entries: by distance, entries of
\* equal distance in a fixed order of their metadata.
EventRank(ev) == IF ev = "created" THEN 0 ELSE 1
Before(a, b) ==
    LET ka == << Dist(a.text), Len(a.source), a.source[Len(a.source)] = "b",
                 EventRank(a.event_type), a.chunk_index >>
        kb == << Dist(b.text), Len(b.source), b.source[Len(b.source)] = "b",
                 EventRank(b.event_type), b.chunk_index >>
        n3(k) == IF k[3] THEN 1 ELSE 0
    IN  \/ ka[1] < kb[1]
        \/ ka[1] = kb[1] /\ ka[2] < kb[2]
        \/ ka[1] = kb[1] /\ ka[2] = kb[2] /\ n3(ka) < n3(kb)
        \/ ka[1] = kb[1] /\ ka[2] = kb[2] /\ n3(ka) = n3(kb) /\ ka[4] < kb[4]
        \/ ka[1] = kb[1] /\ ka[2] = kb[2] /\ n3(ka) = n3(kb) /\ ka[4] = kb[4]
           /\ ka[5] < kb[5]

Copies(e, n) == [ i \in 1 .. n |-> e ]

RECURSIVE Nearest(_, _)
Nearest(idx, S) ==
    IF S = {} THEN <<>>
    ELSE LET m == CHOOSE x \in S : \A y \in S \ {x} : Before(x, y)
         IN  Copies(m, idx[m]) \o Nearest(idx, S \ {m})

Prefix(s, n) == SubSeq(s, 1, IF n < Len(s) THEN n ELSE Len(s))

\* The entries that match the filter, {} matching all.
Matching(idx, filter) ==
    { e \in DOMAIN idx : filter = "none" \/ e.source_type = filter }

\* vector_store.similarity_search_with_score(query, k=k, filter=filter)
similarity_search_with_score(idx, k, filter) ==
    LET docs == Prefix(Nearest(idx, Matching(idx, filter)), k)
    IN  [ i \in 1 .. Len(docs) |-> [ doc |-> docs[i], score |-> Dist(docs[i].text) ] ]

\* vector_store.similarity_search(query, k=k, filter=filter)
similarity_search(idx, k, filter) ==
    Prefix(Nearest(idx, Matching(idx, filter)), k)

\* A search that gives up when the search with scores raises.
robust_similarity_search_once(idx, k, filter, outcome) ==
    IF outcome = "with_score"
    THEN [ outcome |-> outcome, calls |-> <<"with_score">>,
           results |-> similarity_search_with_score(idx, k, filter) ]
    ELSE [ outcome |-> outcome, calls |-> <<"with_score">>, results |-> <<>> ]
\* robust_similarity_search: the calls it makes and what it returns, when
\* the search with scores succeeds ("with_score"), when it raises and the
\* plain search succeeds ("plain"), and when both raise ("raises").
robust_similarity_search(idx, k, filter, outcome) ==
    IF outcome = "with_score"
    THEN [ outcome |-> outcome, calls |-> <<"with_score">>,
           results |-> similarity_search_with_score(idx, k, filter) ]
    ELSE IF outcome = "plain"
    THEN LET docs == similarity_search(idx, k, filter) IN
         [ outcome |-> outcome, calls |-> <<"with_score", "plain">>,
           results |-> [ i \in 1 .. Len(docs) |-> [ doc |-> docs[i], score |-> 0 ] ] ]
    ELSE [ outcome |-> outcome, calls |-> <<"with_score", "plain">>, results |-> <<>> ]

\* get_collection_info(chroma_client)
get_collection_info(idx, ok) == IF ok THEN BagCardinality(idx) ELSE 0

\* How the call comes by its store.  "ok": the client, the store and the
\* count succeed; "count_raises": the count fails inside
\* get_collection_info; the others are a failed construction followed by
\* create_robust_vector_store, where "first" and "retry" return a store,
\* the retry after the directory has been removed and made again, "none"
\* returns (None, None) after the same cleanup, and "raises" is the
\* cleanup itself failing, outside any try block.
RobustOutcomes == {"first", "retry", "none", "raises"}
StoreOutcomes == {"ok", "count_raises"} \cup RobustOutcomes
SearchOutcomes == {"with_score", "plain", "raises"}
RobustWipes(outcome) == outcome \in {"retry", "none", "raises"}

\* A descending sort that puts a later element before its equals.
RECURSIVE InsertDescTies(_, _)
InsertDescTies(sorted, x) ==
    IF sorted = <<>> THEN <<x>>
    ELSE IF Head(sorted).rerank > x.rerank
         THEN <<Head(sorted)>> \o InsertDescTies(Tail(sorted), x)
         ELSE <<x>> \o sorted

\* reranked_results.sort(key=score, reverse=True): stable, descending.
RECURSIVE InsertDesc(_, _)
InsertDesc(sorted, x) ==
    IF sorted = <<>> THEN <<x>>
    ELSE IF Head(sorted).rerank >= x.rerank
         THEN <<Head(sorted)>> \o InsertDesc(Tail(sorted), x)
         ELSE <<x>> \o sorted

RECURSIVE SortDesc(_)
SortDesc(s) ==
    IF s = <<>> THEN <<>>
    ELSE InsertDesc(SortDesc(SubSeq(s, 1, Len(s) - 1)), s[Len(s)])

\* A test that lets every text through.
AnyText(t) == TRUE
\* doc.page_content and doc.page_content.strip()
NonEmptyText(t) == t # "" /\ t # " "

\* The sources as they were collected.
Repeated(s) == s
\* list(dict.fromkeys(sources))
RECURSIVE Unique(_)
Unique(s) ==
    IF s = <<>> THEN <<>>
    ELSE LET rest == Unique(SubSeq(s, 1, Len(s) - 1))
             x == s[Len(s)]
         IN  IF \E i \in 1 .. Len(rest) : rest[i] = x THEN rest ELSE Append(rest, x)

\* What a call returned early, before any candidate was retrieved.
Early(kind, input, store) ==
    [ kind |-> kind, input |-> input, store |-> store, search |-> "none",
      calls |-> <<>>, candidates |-> <<>>, filtered |-> <<>>, survivors |-> <<>>,
      rerank |-> "none", rerankFailed |-> FALSE, final |-> <<>>, context |-> <<>>, sources |-> <<>>,
      llmFailed |-> FALSE ]

\* A threshold step without the fallback to the first candidates.
ThresholdKeepPassing(candidates) ==
    SelectSeq(candidates, LAMBDA c : c.score <= 100 - RETRIEVAL_SCORE_THRESHOLD)
\* Step 2: keep score <= 1 - RETRIEVAL_SCORE_THRESHOLD, or candidate_docs[:3].
ThresholdFilter(candidates) ==
    LET passing == SelectSeq(candidates,
                       LAMBDA c : c.score <= 100 - RETRIEVAL_SCORE_THRESHOLD)
    IN  IF passing = <<>> THEN Prefix(candidates, FallbackKeep) ELSE passing

\* A rerank step that keeps nothing when the reranker raises.
RerankNoFallback(survivors, outcome) ==
    IF outcome = "raises" THEN <<>>
    ELSE LET scored == [ i \in 1 .. Len(survivors) |->
                          [ c |-> survivors[i],
                            rerank |-> predict(outcome, survivors[i].doc.text) ] ]
             top == Prefix(SortDesc(scored), RERANKER_TOP_K)
         IN  [ i \in 1 .. Len(top) |-> top[i].c.doc ]
\* Step 3: the reranker's order, or filtered_docs[:RERANKER_TOP_K] when it
\* raises.
Rerank(survivors, outcome) ==
    IF outcome = "raises"
    THEN LET kept == Prefix(survivors, RERANKER_TOP_K)
         IN  [ i \in 1 .. Len(kept) |-> kept[i].doc ]
    ELSE LET scored == [ i \in 1 .. Len(survivors) |->
                          [ c |-> survivors[i],
                            rerank |-> predict(outcome, survivors[i].doc.text) ] ]
             top == Prefix(SortDesc(scored), RERANKER_TOP_K)
         IN  [ i \in 1 .. Len(top) |-> top[i].c.doc ]

\* Steps 2 to 5 of the search, from the candidates on.
Pipeline(input, store, found, F) ==
    LET candidates == found.results
        filtered == ThresholdFilter(candidates)
        survivors == SelectSeq(filtered, LAMBDA c : NonEmptyText(c.doc.text))
        final == Rerank(survivors, F.rerank)
        labelled == [ i \in 1 .. Len(final) |-> [ label |-> i, doc |-> final[i] ] ]
        parts == SelectSeq(labelled, LAMBDA d : NonEmptyText(d.doc.text))
        sources == [ i \in 1 .. Len(parts) |-> basename(parts[i].doc.source) ]
        base == [ Early("none", input, store) EXCEPT
                    !.search = found.outcome, !.calls = found.calls,
                    !.candidates = candidates ]
    IN  IF candidates = <<>> THEN [ base EXCEPT !.kind = "no_relevant" ]
        ELSE IF survivors = <<>>
        THEN [ base EXCEPT !.kind = "no_relevant", !.filtered = filtered ]
        ELSE IF parts = <<>>
        THEN [ base EXCEPT !.kind = "no_relevant", !.filtered = filtered,
                           !.survivors = survivors,
                           !.rerank = F.rerank,
                           !.rerankFailed = (F.rerank = "raises"),
                           !.final = final ]
        ELSE [ base EXCEPT !.kind = "answer", !.filtered = filtered,
                           !.survivors = survivors,
                           !.rerank = F.rerank,
                           !.rerankFailed = (F.rerank = "raises"),
                           !.final = final,
                           !.context = [ i \in 1 .. Len(parts) |->
                                           [ label |-> parts[i].label, text |-> parts[i].doc.text ] ],
                           !.sources = Unique(sources),
                           !.llmFailed = ~F.llm ]

\* A filter is applied only for the two source types.
ChromaFilter(source_type) ==
    IF source_type \in {"internal", "external"} THEN source_type ELSE "none"

Inputs == [ query : {"q"}, source_type : {"none", "internal"} ]

\* The rest of a call once it holds a store over idx: the search, then,
\* when it found anything, the reranker and the model.
Retrieve(input, store, idx) ==
    \E search \in SearchOutcomes :
        LET found == robust_similarity_search(idx, RETRIEVAL_K,
                         ChromaFilter(input.source_type), search)
        IN  IF found.results = <<>>
            THEN answer' = Pipeline(input, store, found,
                                    [ rerank |-> "raises", llm |-> TRUE ])
            ELSE \E rerank \in RerankOutcomes, llm \in BOOLEAN :
                    answer' = Pipeline(input, store, found,
                                       [ rerank |-> rerank, llm |-> llm ])

\* A call that does not look at the count.
EarlyKindNoCount(store, doc_count) ==
    CASE store = "raises" -> "raised"
      [] store = "none" -> "unavailable"
      [] OTHER -> "none"
\* A call that goes on to use the store it did not get.
EarlyKindUnchecked(store, doc_count) ==
    CASE store = "raises" -> "raised"
      [] store = "none" -> "raised"
      [] store \in {"ok", "count_raises"} /\ doc_count = 0 -> "no_documents"
      [] OTHER -> "none"
\* What the call returns before it searches: "raised" when the cleanup of
\* create_robust_vector_store raises, "unavailable" when no store could be
\* made, "no_documents" when the count is 0, and "none" when it goes on.
EarlyKind(store, doc_count) ==
    CASE store = "raises" -> "raised"
      [] store = "none" -> "unavailable"
      [] store \in {"ok", "count_raises"} /\ doc_count = 0 -> "no_documents"
      [] OTHER -> "none"

\* _run_knowledge_base_search on a well-formed input; store says how the
\* call comes by its store.
_run_knowledge_base_search(input, store) ==
    LET idx == IF RobustWipes(store) THEN EmptyBag ELSE index
        early == EarlyKind(store, get_collection_info(index, store = "ok"))
    IN  /\ index' = idx
        /\ IF early # "none"
           THEN answer' = Early(early, input, store)
           ELSE Retrieve(input, store, idx)
        /\ UNCHANGED <<files, brokerUp, queue, state, execs, ex, nsub, nfs, nfault, lim, wvars, rvars, cvars, svars, mvars>>

Search == \E input \in Inputs, store \in StoreOutcomes : _run_knowledge_base_search(input, store)

(***************************************************************************)
(* process_document_task of neuralstark/celery_app.py, the task of the     *)
(* earlier package, for a created event: it indexes the chunks as the      *)
(* splitter gives them, blank ones included, without chunk_index.          *)
(***************************************************************************)
LegacyTask(file_path) ==
    /\ nsub < lim.jobs
    /\ nsub' = nsub + 1
    /\ LET text == parse_document(files, file_path)
           texts == split_text(text)
       IN  index' = IF Truthy(text)
                    THEN AddTexts(index, [ j \in 1 .. Len(texts) |->
                                             Entry(file_path, "created", NoBatch, NoBatch,
                                                   texts[j]) ])
                    ELSE index
    /\ UNCHANGED <<files, brokerUp, queue, state, execs, ex, nfs, nfault, lim, wvars, answer,
                   rvars, cvars, svars, mvars>>

\* The document tree and the broker.
Environment ==
    \/ \E p \in NormPaths, f \in FileStates : WriteFile(p, f)
    \/ BrokerFlip

\* Uploads, the workers of the pool and the synchronous fallback.
Ingestion ==
    \/ \E fp \in lim.paths, ev \in EventTypes : dispatch_document_processing(fp, ev)
    \/ \E w \in lim.workers : TaskStart(w)
    \/ \E w \in lim.workers : TaskDeleteOld(w)
    \/ \E w \in lim.workers : TaskAddTexts(w)
    \/ SyncDeleteOld
    \/ SyncAddTexts

Watcher ==
    \/ \E e \in Events : on_created(e)
    \/ \E e \in Events : on_modified(e)
    \/ \E e \in Events : on_deleted(e)

Next == Environment \/ Ingestion

Spec == Init /\ [][Next]_vars

\* One run with enough failures to use up the retries of its task.
InitRetry == InitWith([ jobs |-> 1, workers |-> Workers, faults |-> max_retries + 1,
                        fs |-> MaxFsOps, paths |-> {PathA, PathARel},
                        files |-> Tree({PathA, PathARel}, FileStates) ])

SpecRetry == InitRetry /\ [][Next]_vars

\* The same run under a fair pool: a worker that can take a message or go
\* on with the body of its task does so in the end.
Pool(w) == TaskStart(w) \/ TaskDeleteOld(w) \/ TaskAddTexts(w)

SpecFair == InitRetry /\ [][Next]_vars /\ \A w \in Workers : WF_vars(Pool(w))

\* The watcher feeding the pool, with the broker coming and going.
NextWatch ==
    \/ Watcher
    \/ BrokerFlip
    \/ Ingestion

InitWatch == InitWith([ jobs |-> Cardinality(JobIds), workers |-> Workers, faults |-> 0,
                        fs |-> 0, paths |-> {PathA, PathB},
                        files |-> Tree({PathA, PathB}, {FileOf(<<"A">>)}) ])

SpecWatch == InitWatch /\ [][NextWatch]_vars

\* Queries against an index that two documents are ingested into: one
\* with chunks near the query and far from it, one with far chunks only.
QueryTexts ==
    [ p \in NormPaths |->
        IF p = PathA THEN <<"A", "B", "C", "D", "E", "F">>
        ELSE <<"D", "E", "F", "D", "E">> ]

NextQuery ==
    \/ Search
    \/ \E fp \in lim.paths, ev \in {"created", "deleted"} :
            dispatch_document_processing(fp, ev)
    \/ TaskStart("w1")
    \/ TaskAddTexts("w1")

InitQuery == InitWith([ jobs |-> Cardinality(JobIds), workers |-> Workers, faults |-> 0,
                        fs |-> 0, paths |-> {PathA, PathB},
                        files |-> [ p \in NormPaths |-> {FileOf(QueryTexts[p])} ] ])

SpecQuery == InitQuery /\ [][NextQuery]_vars

\* One large document, ingested once with no failure: a text of n pieces
\* with text and one blank piece, for n at and above the batch threshold.
BatchLens == {batch_threshold, batch_threshold + 1, 1100, 1201}
BigText(n) ==
    [ k \in 1 .. n + 1 |->
        IF k = 2 THEN " " ELSE IF k % 3 = 0 THEN "B" ELSE "A" ]

NextBatch ==
    \/ BrokerFlip
    \/ Ingestion

InitBatch == InitWith([ jobs |-> 1, workers |-> {"w1"}, faults |-> 0,
                        fs |-> 0, paths |-> {PathA},
                        files |-> Tree({PathA}, { FileOf(BigText(n)) : n \in BatchLens }) ])

SpecBatch == InitBatch /\ [][NextBatch]_vars

\* Runs about one document whose text has chunks, or blanks only, with one
\* failure at most and the broker coming and going.
InitModify == InitWith([ jobs |-> Cardinality(JobIds), workers |-> {"w1"}, faults |-> 1,
                         fs |-> 0, paths |-> {PathA},
                         files |-> Tree({PathA}, {FileOf(<<"B", " ", "A">>), FileOf(<<" ">>)}) ])

SpecModify == InitModify /\ [][NextBatch]_vars

\* Replayed events of one document that does not change, handled by one
\* worker, one after another, with the broker up.
NextReplay ==
    \/ \E ev \in {"created", "modified"} : dispatch_document_processing(PathA, ev)
    \/ TaskStart("w1")
    \/ TaskDeleteOld("w1")
    \/ TaskAddTexts("w1")

SpecReplay == InitModify /\ [][NextReplay]_vars

\* One job of a document of more than batch_threshold chunks, handled by
\* one worker, with one store operation that fails.
InitPartial == InitWith([ jobs |-> 1, workers |-> {"w1"}, faults |-> 1,
                          fs |-> 0, paths |-> {PathA},
                          files |-> Tree({PathA}, {FileOf(BigText(batch_threshold + 1))}) ])

SpecPartial == InitPartial /\ [][NextReplay]_vars

\* Jobs about two documents, with failures enough to use up the retries
\* of one job, by one worker of the pool and the API process.
InitContain == InitWith([ jobs |-> Cardinality(JobIds), workers |-> {"w1"},
                          faults |-> max_retries + 1, fs |-> 0, paths |-> {PathA, PathB},
                          files |-> Tree({PathA, PathB}, {FileOf(<<"A">>)}) ])

SpecContain == InitContain /\ [][NextBatch]_vars

\* Created events of three documents without failures: one of each root
\* and the upload that names a directory beside the internal root.
InitSource == InitWith([ jobs |-> Cardinality(JobIds), workers |-> {"w1"}, faults |-> 0,
                         fs |-> 0, paths |-> {PathA, PathB, PathUp},
                         files |-> Tree({PathA, PathB, PathUp}, {FileOf(<<"A">>)}) ])

SpecSource == InitSource /\ [][NextBatch]_vars

\* One job of any event type for one document, run by a worker or, with
\* the broker down, by the caller, without failures, on an index that is
\* empty or holds entries of an earlier content and of another document.
EarlierIndex ==
    AddTexts(EmptyBag, << Entry(PathA, "created", 0, NoBatch, "C"),
                          Entry(PathA, "created", 1, NoBatch, "D"),
                          Entry(PathB, "created", 0, NoBatch, "E") >>)

InitAgree ==
    /\ \E idx \in {EmptyBag, EarlierIndex} :
          InitFrom([ jobs |-> 1, workers |-> {"w1"}, faults |-> 0, fs |-> 0,
                     paths |-> {PathA, PathARel}, index |-> idx,
                     files |-> Tree({PathA}, {FileOf(<<"B", " ", "A">>), FileOf(<<" ">>),
                                              Missing}) ], idx)
    /\ InitProcess
    /\ InitManager({{}}, {Dir(Start, Healthy)})

SpecAgree == InitAgree /\ [][NextBatch]_vars

\* Queries against an index that the task of the earlier package wrote:
\* a document with far chunks and a blank one, a document that is blank.
NextBlank ==
    \/ Search
    \/ \E fp \in lim.paths : LegacyTask(fp)

InitBlank == InitWith([ jobs |-> Cardinality(JobIds), workers |-> {"w1"}, faults |-> 0,
                        fs |-> 0, paths |-> {PathA, PathB},
                        files |-> [ p \in NormPaths |->
                                      IF p = PathA THEN {FileOf(<<"F", " ", "E">>)}
                                      ELSE {FileOf(<<" ">>)} ] ])

SpecBlank == InitBlank /\ [][NextBlank]_vars

(***************************************************************************)
(* A call of _run_knowledge_base_search in time.  The caller states its    *)
(* bound as a "timeout" key of the JSON input; json.loads keeps the key    *)
(* and the function reads "query" and "source_type" only (main.py          *)
(* 271-273).  The calls the function makes (the client, the search, the    *)
(* reranker, the model) block for as long as they take: SearchWait is one  *)
(* unit of that time, SearchEnd the return.                                *)
(***************************************************************************)
Timeouts == {1}
TimedInputs == [ query : {"q"}, source_type : {"none"}, timeout : Timeouts ]
Serving(input) == [ kind |-> "serving", input |-> input, start |-> clock ]

SearchBegin ==
    /\ answer.kind # "serving"
    /\ \E input \in TimedInputs : answer' = Serving(input)
    /\ UNCHANGED <<ivars, wvars, rvars, cvars, svars, mvars>>

SearchWait ==
    /\ answer.kind = "serving"
    /\ clock < Start + MaxWait
    /\ clock' = clock + 1
    /\ UNCHANGED <<ivars, wvars, answer, chroma, backups, journal, ncall, done, cvars, svars, mvars>>

SearchEnd ==
    /\ answer.kind = "serving"
    /\ \E store \in StoreOutcomes : _run_knowledge_base_search(answer.input, store)

NextTimed ==
    \/ SearchBegin
    \/ SearchWait
    \/ SearchEnd
    \/ \E fp \in lim.paths : LegacyTask(fp)

SpecTimed == InitBlank /\ [][NextTimed]_vars

NextSchedules ==
    \/ ProvideSchedules
    \/ \E request \in Requests : create_scheduled_report(request)
    \/ get_scheduled_reports


\* The manager alone: a few calls, with one failing primitive at most, on
\* an index directory whose files are empty or not, beside the backups of
\* earlier runs.
Seeds == { [ k |-> 0, tied |-> FALSE ], [ k |-> max_backup_count, tied |-> TRUE ] }
InitFiles == { Healthy, [ f \in IndexFiles |-> IF f = PickleFile THEN 1 ELSE 0 ] }

NextBackup ==
    \/ CreateBackup
    \/ AutoRecovery
    \/ RestoreFromBackup
    \/ Tick

InitBackup ==
    /\ InitBase([ jobs |-> 0, workers |-> {"w1"}, faults |-> 1, fs |-> 0,
                  paths |-> {PathA}, files |-> Tree({PathA}, {Missing}) ])
    /\ \E seed \in Seeds :
          InitManager({Earlier(seed.k, seed.tied)},
                      { Dir(IF seed.tied THEN 0 ELSE Start, fs) : fs \in InitFiles })

SpecBackup == InitBackup /\ [][NextBackup]_vars

\* The manager under health checks: the index directory as the
\* constructor leaves it or as earlier runs filled it, no backups yet.
NextHealth ==
    \/ HealthCheck
    \/ AutoRecovery
    \/ Tick

InitHealth ==
    /\ InitBase([ jobs |-> 0, workers |-> {"w1"}, faults |-> 1, fs |-> 0,
                  paths |-> {PathA}, files |-> Tree({PathA}, {Missing}) ])
    /\ InitManager({{}}, { Dir(Start, fs) : fs \in InitFiles \cup {<<>>} })

SpecHealth == InitHealth /\ [][NextHealth]_vars

\* The health checks and the loads of the metadata of one manager.
NextJournal ==
    \/ HealthCheck
    \/ LoadMetadata
    \/ Tick

SpecJournal == InitHealth /\ [][NextJournal]_vars

\* The threads of one process and their clients.
NextProcess ==
    \E th \in Threads :
        \/ NewEnter(th)
        \/ NewLock(th)
        \/ NewMake(th)
        \/ ClientEnter(th)
        \/ ClientLock(th)
        \/ ClientMake(th)
        \/ IngestOpen(th)
        \/ SearchOpen(th)

InitThreads ==
    InitWith([ jobs |-> 0, workers |-> {"w1"}, faults |-> 0, fs |-> 0, paths |-> {PathA},
               files |-> Tree({PathA}, {Missing}) ])

SpecProcess == InitThreads /\ [][NextProcess]_vars

SpecSchedules == InitThreads /\ [][NextSchedules]_vars

\* The threads of a process that has imported the manager's module and
\* calls get_client, get_embeddings and get_vector_store.
NextStore ==
    \E th \in Threads :
        \/ ClientEnter(th)
        \/ ClientLock(th)
        \/ ClientMake(th)
        \/ EmbedEnter(th)
        \/ EmbedLock(th)
        \/ EmbedMake(th)
        \/ StoreEnter(th)
        \/ StoreLock(th)
        \/ StoreMake(th)

InitStore ==
    /\ InitCore([ jobs |-> 0, workers |-> {"w1"}, faults |-> 0, fs |-> 0, paths |-> {PathA},
                  files |-> Tree({PathA}, {Missing}) ])
    /\ InitImported
    /\ InitManager({{}}, {Dir(Start, Healthy)})

SpecStore == InitStore /\ [][NextStore]_vars

(***************************************************************************)
(* Step predicates used by the properties.                                 *)
(***************************************************************************)
\* Executor x ends a run with the status "indexed" in this step.
CompletesIndexed(x) ==
    /\ ex[x].pc = "add"
    /\ ex'[x].pc = "idle"
    /\ state'[ex[x].msg.id].status = "indexed"

\* The body of run id is entered in this step.
Entered(id) == execs'[id] = execs[id] + 1

\* The messages of run id that wait in the queue.
Queued(q, id) ==
    BagCardinality([ m \in { x \in DOMAIN q : x.id = id } |-> q[m] ])

(***************************************************************************)
(* C1.  Idempotence of modified, as claimed: whenever a run for a modified *)
(* event ends with status indexed, the number of entries whose source is   *)
(* the normalized path equals the number of non-empty chunks of the text   *)
(* the run extracted, whatever the index held before.                      *)
(***************************************************************************)
C1_ModifiedIdempotent ==
    [][ \A x \in Executors :
          (CompletesIndexed(x) /\ ex[x].msg.event_type = "modified")
          => EntryCount(index', abspath(ex[x].msg.file_path)) = Len(ex[x].texts)
      ]_vars

(***************************************************************************)
(* C1, amended.  The same, for the runs whose delete of the old entries    *)
(* succeeded and between whose delete and completion no other run wrote or *)
(* deleted entries of the same source.                                     *)
(***************************************************************************)
C1_ModifiedIdempotentWhenOwn ==
    [][ \A x \in Executors :
          (CompletesIndexed(x) /\ ex[x].msg.event_type = "modified" /\ ex[x].own)
          => EntryCount(index', abspath(ex[x].msg.file_path)) = Len(ex[x].texts)
      ]_vars

\* Two runs have indexed the document, and what the index holds is what the
\* later, modified, run wrote: the entries of the earlier run are gone.
C1_Witness ==
    /\ \A id \in JobIds : state[id].status = "indexed"
    /\ index # EmptyBag
    /\ \A e \in DOMAIN index : e.event_type = "modified" /\ e.source = abspath(PathA)
    /\ files[abspath(PathA)].st = "ok"
    /\ BagCardinality(index) = Len(FilterTexts(files[abspath(PathA)].text))

(***************************************************************************)
(* C3.  Bounded retry, as claimed: no task body is entered more than three *)
(* times.                                                                  *)
(***************************************************************************)
C3_AtMostThreeExecutions == \A id \in JobIds : execs[id] <= 3

(***************************************************************************)
(* C5.  Event-to-job mapping of the watcher: a handler called with an      *)
(* event that is not a directory event calls delay exactly once, with the  *)
(* event's path and the handler's event type; called with a directory      *)
(* event it calls delay not at all.                                        *)
(***************************************************************************)
C5_OneJobPerFileEvent ==
    watch # NoEvent =>
        watch.calls =
            IF watch.event.is_directory THEN <<>>
            ELSE << [ file_path |-> watch.event.src_path, event_type |-> watch.kind ] >>

\* A modified event of a file has been handled and its job is queued, and
\* a directory event has been handled before it without a job.
C5_Witness ==
    /\ watch # NoEvent
    /\ ~watch.event.is_directory
    /\ watch.kind = "modified"
    /\ nev = 2
    /\ BagCardinality(queue) = 1
    /\ \E m \in BagToSet(queue) :
          m.file_path = watch.event.src_path /\ m.event_type = "modified"

(***************************************************************************)
(* C6.  No change event is dropped, as claimed: every file event the       *)
(* watcher handles ends with its job enqueued or with a synchronous run of *)
(* the ingestion logic.                                                    *)
(***************************************************************************)
C6_NoEventDropped ==
    (watch # NoEvent /\ ~watch.event.is_directory)
        => watch.outcome \in {"enqueued", "sync"}

(***************************************************************************)
(* C4.  Extraction failure is terminal: a run for a created or modified    *)
(* event that constructs its store and extracts no text (None or empty)    *)
(* ends in that step with status failed_extraction, leaves the index as it *)
(* was and sends no retry.                                                 *)
(***************************************************************************)
C4_ExtractionFailureTerminal ==
    [][ \A id \in JobIds :
          ( /\ Entered(id)
            /\ nfault' = nfault
            /\ state'[id].event_type \in {"created", "modified"}
            /\ parse_document(files, state'[id].file_path) \in {None, <<>>} )
          => /\ state'[id].status = "failed_extraction"
             /\ index' = index
             /\ Queued(queue', id) = 0
             /\ \A x \in Executors : ex'[x].pc = "idle" \/ ex'[x].msg.id # id
      ]_vars

\* A modified run has failed extraction while the index still holds the
\* entries stored for its path earlier.
C4_Witness ==
    \E id \in JobIds :
        /\ state[id].status = "failed_extraction"
        /\ state[id].event_type = "modified"
        /\ EntryCount(index, abspath(state[id].file_path)) > 0

(***************************************************************************)
(* C3.  The runs of one task with a failing delete: the body of a deleted  *)
(* task has been entered more than max_retries + 1 times.                  *)
(***************************************************************************)
C3_Witness ==
    \E id \in JobIds :
        /\ execs[id] > max_retries + 1
        /\ state[id].event_type = "deleted"

(***************************************************************************)
(* C2.  Deletion completeness: a run that ends with status deleted leaves  *)
(* no entry whose source is its normalized path, and every search returns  *)
(* only chunks that are entries of the index it searched: it returns no    *)
(* chunk of a source without entries, and on an index without entries it   *)
(* returns no chunk at all, by the no-documents result when the store and  *)
(* its count were obtained without failure.                                *)
(***************************************************************************)
C2_DeletionComplete ==
    [][ /\ \A id \in JobIds :
              (state'[id].status = "deleted" /\ state[id].status # "deleted")
              => EntryCount(index', abspath(state'[id].file_path)) = 0
        /\ answer' # answer =>
              /\ \A i \in DOMAIN answer'.candidates :
                    answer'.candidates[i].doc \in DOMAIN index'
              /\ \A i \in DOMAIN answer'.final : answer'.final[i] \in DOMAIN index'
              /\ index' = EmptyBag =>
                    /\ answer'.kind # "answer"
                    /\ answer'.store = "ok" => answer'.kind = "no_documents"
      ]_vars

\* The only document was indexed and then deleted, and a search made after
\* that has returned the no-documents result.
C2_Witness ==
    /\ \E i, j \in JobIds :
          /\ state[i].status = "indexed"
          /\ state[j].status = "deleted"
          /\ abspath(state[i].file_path) = abspath(state[j].file_path)
    /\ index = EmptyBag
    /\ answer.kind = "no_documents"
    /\ answer.store = "ok"

(***************************************************************************)
(* C7.  Retrieval fallback chain, as claimed: when the search with scores  *)
(* and the plain search both raise, the query returns the unavailable      *)
(* result.                                                                 *)
(***************************************************************************)
C7_BothFailUnavailable ==
    (answer # NoQuery /\ answer.search = "raises") => answer.kind = "unavailable"

(***************************************************************************)
(* C7, amended.  Candidate retrieval first runs the search with scores; if *)
(* that raises it runs the plain search with the same k and filter and     *)
(* gives every result the score 0; if that raises too the candidate list   *)
(* is empty and the query returns the no-relevant-information result.  No  *)
(* exception leaves the call.                                              *)
(***************************************************************************)
C7_FallbackChain ==
    [][ (answer' # answer /\ answer'.search # "none") =>
          LET a == answer'
              filter == ChromaFilter(a.input.source_type)
              scored == similarity_search_with_score(index', RETRIEVAL_K, filter)
              plain == similarity_search(index', RETRIEVAL_K, filter)
          IN  /\ a.kind # "raised"
              /\ a.search = "with_score" =>
                    /\ a.calls = <<"with_score">>
                    /\ a.candidates = scored
              /\ a.search = "plain" =>
                    /\ a.calls = <<"with_score", "plain">>
                    /\ Len(a.candidates) = Len(plain)
                    /\ \A i \in DOMAIN plain :
                          a.candidates[i] = [ doc |-> plain[i], score |-> 0 ]
              /\ a.search = "raises" =>
                    /\ a.calls = <<"with_score", "plain">>
                    /\ a.candidates = <<>>
                    /\ a.kind = "no_relevant"
      ]_vars

\* Both searches have raised on an index that holds entries, and the query
\* has returned the no-relevant-information result.
C7_Witness ==
    /\ answer # NoQuery
    /\ answer.search = "raises"
    /\ answer.kind = "no_relevant"
    /\ index # EmptyBag

C9_ThresholdFallback ==
    (answer # NoQuery /\ answer.candidates # <<>>) =>
        LET c == answer.candidates
            Passes(x) == x.score <= 100 - RETRIEVAL_SCORE_THRESHOLD
            n == IF Len(c) < 3 THEN Len(c) ELSE 3
        IN  IF \A i \in DOMAIN c : ~Passes(c[i])
            THEN answer.filtered = SubSeq(c, 1, n)
            ELSE answer.filtered = SelectSeq(c, Passes)

\* Four candidates were found, none within the threshold, and the first
\* three of them went on to an answer.
C9_Witness ==
    /\ answer # NoQuery
    /\ Len(answer.candidates) > 3
    /\ \A i \in DOMAIN answer.candidates :
          answer.candidates[i].score > 100 - RETRIEVAL_SCORE_THRESHOLD
    /\ Len(answer.filtered) = 3
    /\ answer.kind = "answer"

(***************************************************************************)
(* C10.  Rerank resilience: when the reranker raises, the final documents  *)
(* are the first RERANKER_TOP_K surviving candidates in their order, and   *)
(* the call returns an answer built from them.                             *)
(***************************************************************************)
C10_RerankResilience ==
    (answer # NoQuery /\ answer.rerankFailed) =>
        LET sv == answer.survivors
            n == IF Len(sv) < RERANKER_TOP_K THEN Len(sv) ELSE RERANKER_TOP_K
        IN  /\ answer.kind = "answer"
            /\ sv # <<>>
            /\ Len(answer.final) = n
            /\ \A i \in 1 .. n : answer.final[i] = sv[i].doc
            /\ Len(answer.context) = n
            /\ \A i \in 1 .. n : answer.context[i].text = sv[i].doc.text

\* The reranker raised with more than RERANKER_TOP_K candidates surviving.
C10_Witness ==
    /\ answer # NoQuery
    /\ answer.rerankFailed
    /\ Len(answer.survivors) > RERANKER_TOP_K
    /\ Len(answer.final) = RERANKER_TOP_K
    /\ answer.kind = "answer"

(***************************************************************************)
(* C11.  Rerank ordering: when the reranker succeeds, the surviving        *)
(* candidate at position k stands in the final documents at its rank, the  *)
(* number of survivors with a higher rerank score or with the same score   *)
(* and an earlier position, plus one, if that rank is at most              *)
(* RERANKER_TOP_K; the final documents are as many as the survivors, at    *)
(* most RERANKER_TOP_K.  So each final document is a survivor and no       *)
(* survivor stands in two places.                                          *)
(***************************************************************************)
C11_RerankOrdering ==
    (answer # NoQuery /\ answer.rerank \in Rerankers) =>
        LET sv == answer.survivors
            sc(k) == predict(answer.rerank, sv[k].doc.text)
            rank(k) == 1 + Cardinality({ j \in DOMAIN sv :
                              sc(j) > sc(k) \/ (sc(j) = sc(k) /\ j < k) })
            n == IF Len(sv) < RERANKER_TOP_K THEN Len(sv) ELSE RERANKER_TOP_K
        IN  /\ Len(answer.final) = n
            /\ \A k \in DOMAIN sv : rank(k) <= n => answer.final[rank(k)] = sv[k].doc

\* A reranker that changes the order of the candidates has ranked more
\* than RERANKER_TOP_K survivors.
C11_Witness ==
    /\ answer # NoQuery
    /\ answer.rerank = "reverse"
    /\ Len(answer.survivors) > RERANKER_TOP_K
    /\ Len(answer.final) = RERANKER_TOP_K
    /\ answer.final[1] # answer.survivors[1].doc

C13_SearchReadOnly == [][ answer' # answer => index' = index ]_vars

\* A document was indexed, no run has deleted anything, and after a call
\* whose store came from the retry of create_robust_vector_store the index
\* holds no entry.
C13_Witness ==
    /\ \E id \in JobIds : state[id].status = "indexed"
    /\ \A id \in JobIds : state[id].event_type # "deleted"
    /\ answer # NoQuery
    /\ answer.store = "retry"
    /\ index = EmptyBag

(***************************************************************************)
(* C14.  Batch indexing ordinals.  For a document of n non-empty chunks:   *)
(* every add_texts call of a run adds all n chunks when n <= 1000 and at   *)
(* most 100 chunks when n > 1000; and when the run ends indexed, on an     *)
(* index that held nothing of the document, the entries of the document    *)
(* carry the chunk_index values 0..n-1, each once, the entry with          *)
(* chunk_index k holding the k-th chunk, and when n > 1000 the entries     *)
(* with chunk_index 100*b .. 100*b+99 are those of batch b, so that every  *)
(* batch but the last holds exactly 100.                                   *)
(***************************************************************************)
C14_BatchOrdinals ==
    [][ \A x \in Executors :
          (ex[x].pc = "add" /\ index' # index) =>
            LET src == abspath(ex[x].msg.file_path)
                chunks == SelectSeq(files[src].text, LAMBDA t : t # "" /\ t # " ")
                n == Len(chunks)
                added == BagCardinality(index') - BagCardinality(index)
                OfIndex(k) == { e \in DOMAIN index' : e.source = src /\ e.chunk_index = k }
            IN  /\ IF n > 1000 THEN added >= 1 /\ added <= 100 ELSE added = n
                /\ CompletesIndexed(x) =>
                      /\ EntryCount(index', src) = n
                      /\ \A k \in 0 .. n - 1 :
                            \E e \in OfIndex(k) :
                                /\ OfIndex(k) = {e}
                                /\ index'[e] = 1
                                /\ e.text = chunks[k + 1]
                                /\ n > 1000 => e.batch = k \div 100
      ]_vars

\* A document of 1201 chunks has been indexed, its last chunk alone in the
\* thirteenth batch.
C14_Witness ==
    /\ \E id \in JobIds : state[id].status = "indexed"
    /\ BagCardinality(index) = 1201
    /\ \E e \in DOMAIN index : e.batch = 12 /\ e.chunk_index = 1200
    /\ \A e \in DOMAIN index : e.batch = 12 => e.chunk_index = 1200

(***************************************************************************)
(* C15.  Best-effort delete on modified: when the delete of the existing   *)
(* entries raises in a modified run, the run sends no retry, takes no      *)
(* failure status and leaves the index as it was; it goes on to upsert the *)
(* non-empty chunks of the text it extracted (or ends with no_content when *)
(* there are none), and the upsert that ends a run ends it indexed.        *)
(***************************************************************************)
C15_BestEffortDelete ==
    [][ \A x \in Executors :
          /\ (ex[x].pc = "delete_old" /\ ex'[x] # ex[x] /\ nfault' # nfault) =>
                LET m == ex[x].msg
                    chunks == SelectSeq(ex[x].text, LAMBDA t : t # "" /\ t # " ")
                IN  /\ m.event_type = "modified"
                    /\ index' = index
                    /\ queue' = queue
                    /\ state'[m.id].status \notin {"RETRY", "FAILURE", "error"}
                    /\ IF chunks = <<>>
                       THEN state'[m.id].status = "no_content"
                       ELSE /\ ex'[x].pc = "add"
                            /\ ex'[x].msg = m
                            /\ ex'[x].texts = chunks
          /\ (ex[x].pc = "add" /\ ex'[x].pc = "idle" /\ index' # index) =>
                state'[ex[x].msg.id].status = "indexed"
      ]_vars

\* The only run so far is a modified run that ran once, met the one
\* failure and ended indexed: the failure was its delete, every other one
\* ends the run with a retry or an error.
C15_Witness ==
    /\ nsub = 1
    /\ nfault = 1
    /\ state[1].event_type = "modified"
    /\ state[1].status = "indexed"
    /\ execs[1] = 1
    /\ \E e \in DOMAIN index :
          e.source = abspath(state[1].file_path) /\ e.event_type = "modified"
    /\ \A x \in Executors : ex[x].pc = "idle"
    /\ queue = EmptyBag

(***************************************************************************)
(* Step predicates of the manager.                                         *)
(***************************************************************************)
\* This step is a call of op that has returned.
Returns(op) == ncall' # ncall /\ done'.op = op

\* The backup that this call made and that is there when it returns.
MadeNow(reason) ==
    { b \in backups' : b.created = Start + ncall /\ b.reason = reason }

(***************************************************************************)
(* C16.  Backup rotation: the backup directory never holds more than       *)
(* max_backup_count backups, and a create_backup call that succeeds when   *)
(* max_backup_count backups exist leaves exactly that many, the most       *)
(* recently created ones: its own backup stays and the one that goes was   *)
(* created before all that stay.                                           *)
(***************************************************************************)
C16_BackupRotation ==
    [][ /\ Cardinality(backups') <= max_backup_count
        /\ (Returns("create_backup") /\ done'.ret = "path"
                /\ Cardinality(backups) = max_backup_count) =>
              /\ Cardinality(backups') = max_backup_count
              /\ MadeNow(Manual) # {}
              /\ \A r \in backups \ backups', k \in backups' : r.created < k.created
      ]_vars

\* create_backup has returned the path of its backup after pruning that
\* very backup, the latest of eleven of equal mtime.
C16_Witness ==
    /\ done.op = "create_backup"
    /\ done.ret = "path"
    /\ done.failed = {}
    /\ Cardinality(backups) = max_backup_count
    /\ \A b \in backups : Name(b) # done.path

(***************************************************************************)
(* C17.  Recovery safety: an auto_recovery call that removes anything from *)
(* the index directory has made, before that, a backup tagged pre_recovery *)
(* that holds what the directory held when the call began.                 *)
(***************************************************************************)
C17_BackupBeforeRemoval ==
    [][ (Returns("auto_recovery") /\ chroma' # chroma) =>
            \E b \in MadeNow(done'.arg.reason) :
                /\ b.reason[1] = "pre_recovery"
                /\ b.files = chroma.files
      ]_vars

\* auto_recovery has emptied the index directory and returned True while
\* its backup could not be made: no pre_recovery backup is there.
C17_Witness ==
    /\ done.op = "auto_recovery"
    /\ done.arg.reason[2] = "general"
    /\ done.ret = "True"
    /\ done.path = NoName
    /\ chroma.exists
    /\ chroma.files = <<>>
    /\ \A b \in backups : b.reason[1] # "pre_recovery"

(***************************************************************************)
(* C18.  restore_from_backup restores the named backup, or the most        *)
(* recently created one when no name is given; it makes a pre_restore      *)
(* backup of the live state before it removes the live index directory;    *)
(* and when it returns True the live directory holds what the selected     *)
(* backup holds.                                                           *)
(***************************************************************************)
LastCreated(B) == { b \in B : \A k \in B : k.created <= b.created }

C18_RestoreFromBackup ==
    [][ Returns("restore_from_backup") =>
            LET sel == IF done'.arg # NoName
                       THEN { b \in backups : Name(b) = done'.arg }
                       ELSE LastCreated(backups)
            IN  /\ done'.path # NoName => done'.path \in { Name(b) : b \in sel }
                /\ (chroma.exists /\ chroma' # chroma) =>
                      \E b \in MadeNow(PreRestore) : b.files = chroma.files
                /\ done'.ret = "True" =>
                      \E b \in sel : Name(b) = done'.path /\ chroma'.files = b.files
      ]_vars

\* restore_from_backup without a name has returned True after restoring a
\* backup made before the latest one.
C18_Witness ==
    /\ done.op = "restore_from_backup"
    /\ done.arg = NoName
    /\ done.ret = "True"
    /\ done.failed = {}
    /\ \E b, k \in backups :
          /\ Name(b) = done.path
          /\ k.reason = Manual
          /\ k.created > b.created

(***************************************************************************)
(* C19.  Recovery dispatch and its frame: no auto_recovery call creates or *)
(* alters a file of the index directory; 'empty_files' removes zero-byte   *)
(* files only, 'connection_failure' *.sqlite* files only,                  *)
(* 'index_corruption' *.bin files only; and a call that returns True has   *)
(* removed every zero-byte file ('empty_files') or left the directory      *)
(* there and empty (any other corruption_type).                            *)
(***************************************************************************)
Gone == DOMAIN chroma.files \ DOMAIN chroma'.files

RecoveryFrame(corruption_type) ==
    /\ \A f \in DOMAIN chroma'.files :
          f \in DOMAIN chroma.files /\ chroma'.files[f] = chroma.files[f]
    /\ corruption_type = "empty_files" => Gone \subseteq EmptyFiles(chroma)
    /\ corruption_type = "connection_failure" =>
          Gone \subseteq { f \in DOMAIN chroma.files : MatchSqlite(f) }
    /\ corruption_type = "index_corruption" =>
          Gone \subseteq { f \in DOMAIN chroma.files : MatchBin(f) }

RecoveryDone(corruption_type) ==
    /\ corruption_type = "empty_files" => Gone = EmptyFiles(chroma)
    /\ corruption_type \notin {"empty_files", "connection_failure", "index_corruption"} =>
          chroma'.exists /\ chroma'.files = <<>>

C19_RecoveryDispatchWhenTrue ==
    [][ Returns("auto_recovery") =>
            /\ RecoveryFrame(done'.arg.reason[2])
            /\ done'.ret = "True" => RecoveryDone(done'.arg.reason[2])
      ]_vars

\* C19 as stated: the removals are made whatever the call returns.
C19_RecoveryDispatch ==
    [][ Returns("auto_recovery") =>
            /\ RecoveryFrame(done'.arg.reason[2])
            /\ RecoveryDone(done'.arg.reason[2])
      ]_vars

\* auto_recovery('empty_files') has returned True: the zero-byte files are
\* gone and the file with content is there as it was.
C19_Witness ==
    /\ done.op = "auto_recovery"
    /\ done.arg.reason[2] = "empty_files"
    /\ done.ret = "True"
    /\ chroma.exists
    /\ chroma.files = [ f \in {PickleFile} |-> 1 ]

(***************************************************************************)
(* C20.  Recovery operations never raise past their boundary: every call   *)
(* returns a value; a failure of the copy or of reading the journal gives  *)
(* None from create_backup, and a failure of reading the journal, of a     *)
(* removal in the empty-files step or in the reset, of the removal or the  *)
(* copy of a restore gives False.                                          *)
(***************************************************************************)
Reported(op, corruption_type) ==
    CASE op = "create_backup" -> {"backup_mkdir", "exists", "backup_file", "load"}
      [] op = "auto_recovery" ->
            {"load", "rmtree", "mkdir"}
                \cup (IF corruption_type = "empty_files" THEN {"unlink"} ELSE {})
      [] OTHER -> {"rmtree", "missing", "restore_file"}

C20_NeverRaisesReportsOwn ==
    [][ ncall' # ncall =>
            /\ done'.ret \in (IF done'.op = "create_backup"
                              THEN {"path", "None"} ELSE {"True", "False"})
            /\ done'.failed \cap Reported(done'.op, done'.arg.reason[2]) # {} =>
                  done'.ret \in {"None", "False"}
      ]_vars

\* C20 as stated: every failure gives a failure value.
C20_NeverRaisesReportsAll ==
    [][ ncall' # ncall =>
            /\ done'.ret \in (IF done'.op = "create_backup"
                              THEN {"path", "None"} ELSE {"True", "False"})
            /\ done'.failed # {} => done'.ret \in {"None", "False"}
      ]_vars

\* A call whose journal could not be read has returned its failure value,
\* and none has raised.
C20_Witness ==
    /\ "load" \in done.failed
    /\ done.ret \in {"None", "False"}
    /\ done.op \in {"create_backup", "auto_recovery"}

(***************************************************************************)
(* C21.  Corruption journal: every report that health_check returns with   *)
(* healthy = false has been appended to corruption_events of the metadata  *)
(* file when health_check returns, whatever the cause.                     *)
(***************************************************************************)
C21_CorruptionJournal ==
    [][Returns("health_check") /\ done'.ret = "unhealthy"
         => /\ Len(journal'.corruption_events) = Len(journal.corruption_events) + 1
            /\ journal'.corruption_events[Len(journal'.corruption_events)].timestamp = clock]_vars

\* A health_check has reported a missing index directory and the journal
\* holds no corruption event.
C21_Witness ==
    /\ done.op = "health_check"
    /\ done.ret = "unhealthy"
    /\ ~chroma.exists
    /\ journal.corruption_events = <<>>

(***************************************************************************)
(* C22.  health_check never mutates: a call of health_check leaves the     *)
(* files of the index directory and the set of backups as they were.       *)
(***************************************************************************)
C22_HealthCheckReadOnly ==
    [][Returns("health_check")
         => /\ chroma'.exists = chroma.exists
            /\ chroma'.files = chroma.files
            /\ backups' = backups]_vars

\* A health_check has returned after a recovery that removed the sqlite
\* file, and the sqlite file is there again.
C22_Witness ==
    /\ done.op = "health_check"
    /\ ncall = 2
    /\ \E i \in DOMAIN journal.recovery_events :
          /\ "corruption_type" \in DOMAIN journal.recovery_events[i]
          /\ journal.recovery_events[i].corruption_type = "connection_failure"
    /\ SqliteFile \in DOMAIN chroma.files

(***************************************************************************)
(* C23.  Singleton store client: under any interleaving of concurrent      *)
(* ChromaDBManager() and get_client calls in one process, at most one      *)
(* manager and at most one client of the manager are ever constructed, and *)
(* every caller has received that same manager and that same client.       *)
(***************************************************************************)
C23_Singleton ==
    /\ _instance <= 1
    /\ Cardinality({ c \in clients : c.site = "manager" }) <= 1
    /\ \A th \in Threads :
          /\ threads[th].manager \in {0, _instance}
          /\ threads[th].client \in {0, _client}
          /\ threads[th].client # 0
                => \E c \in clients : c.site = "manager" /\ c.id = threads[th].client

\* A thread that found no client at line 59 holds the lock at line 61
\* when another thread has constructed the client and received it.
C23_Witness ==
    \E th, other \in Threads :
        /\ threads[th].pc = "client_locked"
        /\ _client # 0
        /\ threads[other].client = _client
        /\ threads[th].manager = threads[other].manager

TerminalStatuses == {"deleted", "indexed", "no_content", "failed_extraction", "FAILURE"}

C25_JobLifecycle ==
    /\ \A id \in JobIds :
          (state[id].status = "PENDING") ~> (state[id].status \in TerminalStatuses)
    /\ [][\A id \in JobIds :
            state[id].status \in TerminalStatuses => state'[id] = state[id]]_vars

\* Every enqueued job reaches a terminal outcome in the end.
C25_Terminates ==
    \A id \in JobIds :
        (state[id].status = "PENDING") ~> (state[id].status \in TerminalStatuses)

\* A job whose outcome is terminal has been run more than once and is to
\* be run again.
C25_Witness ==
    \E m \in BagToSet(queue) :
        /\ state[m.id].status \in TerminalStatuses
        /\ execs[m.id] > 1

(***************************************************************************)
(* Step predicates of the convergence of the index.                        *)
(***************************************************************************)
\* No run is queued or under way.
Quiet == queue = EmptyBag /\ \A x \in Executors : ex[x].pc = "idle"

\* The chunks of the content that path p has now.
ChunksOf(p) == IF files[p].st = "ok" THEN FilterTexts(split_text(files[p].text)) ELSE <<>>

\* The entries of p are the chunks of its content, each once.
Converged(p) ==
    /\ EntryCount(index, p) = Len(ChunksOf(p))
    /\ \A i \in DOMAIN ChunksOf(p) :
          \E e \in DOMAIN index :
              e.source = p /\ e.chunk_index = i - 1 /\ e.text = ChunksOf(p)[i]

(***************************************************************************)
(* C26.  Convergence under out-of-order events: in whatever order the      *)
(* created job and the modified job of one path are processed, once both   *)
(* have finished without a failure the index entries of the path are none  *)
(* if the file is gone and exactly the chunks of its content otherwise.    *)
(***************************************************************************)
C26_Convergence ==
    ( /\ Quiet
      /\ nfault = 0
      /\ nsub = 2
      /\ { state[id].event_type : id \in JobIds } = {"created", "modified"}
      /\ \A id \in JobIds : state[id].status \in {"indexed", "no_content"} )
        => Converged(abspath(PathA))

\* The modified job and then the created job of a document have ended
\* indexed, and the index holds every chunk twice.
C26_Witness ==
    /\ Quiet
    /\ nfault = 0
    /\ state[1].event_type = "modified"
    /\ state[2].event_type = "created"
    /\ \A id \in JobIds : state[id].status = "indexed" /\ execs[id] = 1
    /\ EntryCount(index, abspath(PathA)) = 2 * Len(ChunksOf(abspath(PathA)))

(***************************************************************************)
(* C27.  Duplicate events are tolerated: when created and modified events  *)
(* of a path whose content does not change are replayed and processed one  *)
(* after another without a failure, the number of index entries of the     *)
(* path never exceeds the chunk count of its content.                      *)
(***************************************************************************)
C27_ReplayDoesNotGrow ==
    nfault = 0 => EntryCount(index, abspath(PathA)) <= Len(ChunksOf(abspath(PathA)))

\* Two created jobs of the same document have ended indexed, one after
\* the other, and the index holds every chunk twice.
C27_Witness ==
    /\ Quiet
    /\ nfault = 0
    /\ \A id \in JobIds :
          /\ state[id].event_type = "created"
          /\ state[id].status = "indexed"
          /\ execs[id] = 1
    /\ EntryCount(index, abspath(PathA)) = 2 * Len(ChunksOf(abspath(PathA)))

(***************************************************************************)
(* Step predicates of the containment of failures.                         *)
(***************************************************************************)
\* The documents whose job takes this step.
StepSources ==
    { abspath(state'[id].file_path) : id \in { j \in JobIds : execs'[j] # execs[j] } }
        \cup { abspath(ex[x].msg.file_path) :
                 x \in { y \in Executors : ex[y].pc # "idle" /\ ex'[y].pc # ex[y].pc } }

\* This step is taken by process_document_sync.
SyncStep ==
    \/ nsub' # nsub /\ ~brokerUp
    \/ ex[Api].pc # "idle" /\ ex'[Api].pc # ex[Api].pc

(***************************************************************************)
(* C28.  Ingestion failures are contained in their job: a step of          *)
(* process_document_sync sends no retry and takes no failure state of a    *)
(* task, and when an operation of it fails, other than the best-effort      *)
(* delete, it returns status error to its caller and leaves the index as   *)
(* it was; a step of any job changes only index entries of the job's own   *)
(* document; and a job takes a failure status only in a step in which an   *)
(* operation of its own fails, so that a failed or dead-lettered job of    *)
(* one document does not keep the job of another from completing.          *)
(***************************************************************************)
C28_FailuresContained ==
    [][ /\ SyncStep =>
              /\ queue' = queue
              /\ \A id \in JobIds : state'[id].status \notin {"RETRY", "FAILURE"}
                                        \/ state'[id] = state[id]
              /\ (nfault' # nfault /\ ex[Api].pc # "delete_old") =>
                    /\ ex'[Api].pc = "idle"
                    /\ index' = index
                    /\ \E id \in JobIds : state'[id] # state[id] /\ state'[id].status = "error"
        /\ \A e \in DOMAIN index \cup DOMAIN index' :
              CopiesIn(e, index') # CopiesIn(e, index) => e.source \in StepSources
        /\ \A id \in JobIds :
              (state'[id] # state[id] /\ state'[id].status \in {"RETRY", "FAILURE", "error"})
                  => /\ nfault' # nfault
                     /\ abspath(state'[id].file_path) \in StepSources
      ]_vars

\* The job of one document is dead-lettered after running 1 + max_retries
\* times, and the job of the other document has run once and is indexed:
\* the index holds the chunks of that document and nothing else.
C28_Witness ==
    /\ state[1].status = "FAILURE"
    /\ execs[1] = max_retries + 1
    /\ state[2].status = "indexed"
    /\ execs[2] = 1
    /\ abspath(state[1].file_path) # abspath(state[2].file_path)
    /\ EntryCount(index, abspath(state[1].file_path)) = 0
    /\ Converged(abspath(state[2].file_path))

(***************************************************************************)
(* C29.  Result assembly: the source list of an answer holds the file name *)
(* of each final document exactly once, in the order of first occurrence   *)
(* in the final ranking, and the labelled context sections are those of    *)
(* the final documents in the order of the final ranking.                  *)
(***************************************************************************)
C29_ResultAssembly ==
    (answer # NoQuery /\ answer.kind = "answer") =>
        LET final == answer.final
            sources == answer.sources
            first(name) == CHOOSE i \in DOMAIN final :
                              /\ basename(final[i].source) = name
                              /\ \A k \in 1 .. i - 1 : basename(final[k].source) # name
        IN  /\ { sources[i] : i \in DOMAIN sources }
                  = { basename(final[i].source) : i \in DOMAIN final }
            /\ \A i, k \in DOMAIN sources :
                  i < k => sources[i] # sources[k] /\ first(sources[i]) < first(sources[k])
            /\ Len(answer.context) = Len(final)
            /\ \A i \in DOMAIN final :
                  answer.context[i] = [ label |-> i, text |-> final[i].text ]

\* An answer from final documents of two files, the first of which comes
\* again after the second: the sources name each file once, in that order.
C29_Witness ==
    /\ answer # NoQuery
    /\ answer.kind = "answer"
    /\ Len(answer.sources) = 2
    /\ \E i, k, n \in DOMAIN answer.final :
          /\ i < k /\ k < n
          /\ basename(answer.final[i].source) = answer.sources[1]
          /\ basename(answer.final[k].source) = answer.sources[2]
          /\ basename(answer.final[n].source) = answer.sources[1]

(***************************************************************************)
(* C30.  Empty-text candidates are dropped: the candidates that reach the  *)
(* reranker are the candidates left by the threshold step whose text is    *)
(* neither empty nor whitespace, in their order; no final document and no  *)
(* context section has such a text; and when dropping them leaves no       *)
(* candidate the query returns the "no relevant information" result.       *)
(***************************************************************************)
Blank(text) == text \in {"", " "}

C30_EmptyTextDropped ==
    (answer # NoQuery /\ answer.filtered # <<>>) =>
        /\ answer.survivors = SelectSeq(answer.filtered, LAMBDA c : ~Blank(c.doc.text))
        /\ \A i \in DOMAIN answer.final : ~Blank(answer.final[i].text)
        /\ \A i \in DOMAIN answer.context : ~Blank(answer.context[i].text)
        /\ (\A i \in DOMAIN answer.filtered : Blank(answer.filtered[i].doc.text))
              => /\ answer.kind = "no_relevant"
                 /\ answer.final = <<>>
                 /\ answer.context = <<>>

\* An answer whose candidates after the threshold step held a blank chunk
\* that did not reach the reranker.
C30_Witness ==
    /\ answer # NoQuery
    /\ answer.kind = "answer"
    /\ \E i \in DOMAIN answer.filtered : Blank(answer.filtered[i].doc.text)
    /\ answer.survivors # <<>>
    /\ Len(answer.survivors) < Len(answer.filtered)
    /\ Len(answer.final) = Len(answer.survivors)

(***************************************************************************)
(* C31.  Empty chunks are never indexed: no step of the ingestion adds an  *)
(* entry whose text is empty or whitespace-only; a run goes on to upsert   *)
(* only with chunks left; and a run whose chunks are all dropped ends with *)
(* status no_content in a step that adds no entry.                         *)
(***************************************************************************)
C31_EmptyChunksNeverIndexed ==
    [][ /\ \A e \in DOMAIN index' : CopiesIn(e, index') > CopiesIn(e, index) => ~Blank(e.text)
        /\ \A x \in Executors :
              (ex'[x].pc = "add" /\ ex[x].pc # "add") =>
                  /\ ex'[x].texts # <<>>
                  /\ \A i \in DOMAIN ex'[x].texts : ~Blank(ex'[x].texts[i])
        /\ \A x \in Executors :
              (ex[x].pc = "delete_old" /\ ex'[x].pc # "delete_old"
                 /\ \A i \in DOMAIN ex[x].text : Blank(ex[x].text[i])) =>
                  state'[ex[x].msg.id].status = "no_content"
        /\ \A id \in JobIds :
              (state'[id] # state[id] /\ state'[id].status = "no_content") =>
                  \A e \in DOMAIN index' : CopiesIn(e, index') <= CopiesIn(e, index)
      ]_vars

\* A document with a blank chunk between two others has been indexed in
\* one run: the index holds the two, and a second run is at its upsert.
C31_Witness ==
    /\ state[1].status = "indexed"
    /\ execs[1] = 1
    /\ nfault = 0
    /\ \E i \in DOMAIN files[abspath(PathA)].text : Blank(files[abspath(PathA)].text[i])
    /\ EntryCount(index, abspath(PathA)) = 2
    /\ Len(files[abspath(PathA)].text) = 3

(***************************************************************************)
(* C32.  Retrieval honours a caller-supplied timeout: a query is not still *)
(* being served after the caller's bound has passed, and a query that      *)
(* returns when the bound has expired returns the "unavailable" result.    *)
(***************************************************************************)
C32_TimeoutHonoured ==
    [][ answer.kind = "serving" =>
          /\ answer'.kind = "serving" => clock' - answer.start <= answer.input.timeout
          /\ (answer'.kind # "serving" /\ clock - answer.start >= answer.input.timeout) =>
                answer'.kind = "unavailable"
      ]_vars

\* A query is being served after the bound its caller gave has passed.
C32_Witness ==
    /\ answer.kind = "serving"
    /\ clock - answer.start > answer.input.timeout

(***************************************************************************)
(* C33.  Scheduled reports persist: a call of get_scheduled_reports made   *)
(* after create calls that returned gives a list with a report of the name *)
(* of every one of them, and a create call that returns leaves every       *)
(* report the file held in its place, as it was.                           *)
(***************************************************************************)
C33_ReportsPersist ==
    [][ /\ got' # got =>
              (created # <<>> =>
                  /\ ~got'.raised
                  /\ \A i \in DOMAIN created :
                        \E j \in DOMAIN got'.result : got'.result[j].name = created[i])
        /\ created' # created =>
              LET before == json_load(schedules)
                  after == json_load(schedules')
              IN  /\ after.ok
                  /\ Len(after.list) = Len(before.list) + 1
                  /\ SubSeq(after.list, 1, Len(before.list)) = before.list
      ]_vars

\* Three reports have been created, two of them of one name, and the
\* list has been read with the three in it.
C33_Witness ==
    /\ Len(created) = 3
    /\ created[1] = created[3]
    /\ created[2] # created[1]
    /\ got.n = 3
    /\ ~got.raised
    /\ Len(got.result) = 3

\* The path lies in the directory tree of root: root's components are the
\* first of the path's.
Inside(path, root) ==
    LET pc == Components(path)
        rc == Components(abspath(root))
    IN  Len(rc) <= Len(pc) /\ SubSeq(pc, 1, Len(rc)) = rc

(***************************************************************************)
(* C34.  Source type of entries: every entry of the index carries          *)
(* source_type internal exactly when its normalized path lies inside the   *)
(* internal root's tree and external exactly when it lies inside the       *)
(* external root's tree.                                                   *)
(***************************************************************************)
C34_SourceTypeByRoot ==
    \A e \in DOMAIN index :
        /\ e.source_type = "internal" <=> Inside(e.source, INTERNAL_KNOWLEDGE_BASE_PATH)
        /\ e.source_type = "external" <=> Inside(e.source, EXTERNAL_KNOWLEDGE_BASE_PATH)

\* The index holds an entry of source_type internal of a document that is
\* in neither root, beside entries of a document of the internal root.
C34_Witness ==
    /\ \E e \in DOMAIN index :
          /\ e.source = abspath(PathUp)
          /\ e.source_type = "internal"
          /\ ~Inside(e.source, INTERNAL_KNOWLEDGE_BASE_PATH)
    /\ \E e \in DOMAIN index : e.source = abspath(PathA) /\ e.source_type = "internal"

(***************************************************************************)
(* C35.  Lazy initialisation does not deadlock: no thread in                *)
(* get_vector_store waits for the manager's lock while it holds that lock   *)
(* itself (a wait that nothing ends, since only the holder releases).       *)
(***************************************************************************)
C35_NoSelfDeadlock ==
    \A th \in Threads : threads[th].pc \in StoreWaits => _lock # th

\* A single thread has called get_vector_store on a manager whose client
\* exists and whose embeddings do not, and waits at line 42 for the lock
\* it took at line 83; the other thread has not run.
C35_Witness ==
    /\ threads["t1"].pc = "store_embed_wait"
    /\ _lock = "t1"
    /\ _client # 0
    /\ _embeddings = 0
    /\ threads["t2"].n = 0

\* The executions of run id that are under way.
Running(id) == Cardinality({ x \in Executors : ex[x].pc # "idle" /\ ex[x].msg.id = id })

(***************************************************************************)
(* C36.  One retry per failed attempt: the executions of one job that are  *)
(* pending in the queue or under way are never more than one.              *)
(***************************************************************************)
C36_OneRetryPerFailure ==
    \A id \in JobIds : Queued(queue, id) + Running(id) <= 1

\* The body of a deleted job has been entered once, its delete has failed
\* once, and two messages of the job wait in the queue.
C36_Witness ==
    \E id \in JobIds :
        /\ state[id].event_type = "deleted"
        /\ execs[id] = 1
        /\ nfault = 1
        /\ Queued(queue, id) = 2
        /\ Running(id) = 0

\* The entries of idx with source src and chunk_index k, copies counted.
CopiesAt(idx, src, k) ==
    BagCardinality([ e \in { d \in DOMAIN idx : d.source = src /\ d.chunk_index = k }
                       |-> idx[e] ])

(***************************************************************************)
(* C37.  Retry after a partial write leaves no duplicates: when a retry of *)
(* a job for a document of more than batch_threshold chunks ends with      *)
(* status indexed, the index holds each chunk_index 0..n-1 of the document *)
(* exactly once.                                                           *)
(***************************************************************************)
C37_RetryLeavesNoDuplicates ==
    [][ \A x \in Executors :
          (CompletesIndexed(x) /\ Batched(ex[x].texts) /\ ex[x].msg.retries > 0) =>
              \A k \in 0 .. Len(ex[x].texts) - 1 :
                  CopiesAt(index', abspath(ex[x].msg.file_path), k) = 1
      ]_vars

\* The retry of a created job has ended with status indexed after the
\* first attempt failed past its first batch: the chunks of that batch are
\* in the index twice, the last chunk once.
C37_Witness ==
    /\ state[1].status = "indexed"
    /\ state[1].event_type = "created"
    /\ execs[1] = 2
    /\ nfault = 1
    /\ CopiesAt(index, abspath(PathA), 0) = 2
    /\ CopiesAt(index, abspath(PathA), batch_threshold) = 1

(***************************************************************************)
(* C38.  restore_from_backup is all-or-nothing: a call that returns False  *)
(* leaves the index directory as it was before the call, and the backup it *)
(* selected is not removed by the rotation that follows the pre_restore    *)
(* backup before it is copied back.                                        *)
(***************************************************************************)
C38_RestoreAllOrNothing ==
    [][ (Returns("restore_from_backup") /\ done'.ret = "False") =>
            /\ chroma' = chroma
            /\ "missing" \notin done'.failed
      ]_vars

\* A restore of an existing backup has returned False without any
\* injected failure: the rotation removed the selected backup, and the
\* index directory, removed before the copy, is gone.
C38_Witness ==
    /\ done.op = "restore_from_backup"
    /\ done.ret = "False"
    /\ done.failed = {"missing"}
    /\ nfault = 0
    /\ chroma = Absent
    /\ \A b \in backups : Name(b) # done.path

(***************************************************************************)
(* C39.  Loading the metadata journal terminates: every call of            *)
(* _load_metadata returns a metadata dict, whatever state the file is in.  *)
(***************************************************************************)
C39_LoadReturnsDict ==
    [][ Returns("_load_metadata") => done'.ret = "dict" ]_vars

\* _load_metadata has been called on a file that exists and cannot be
\* read, and has ended in RecursionError.
C39_Witness ==
    /\ done.op = "_load_metadata"
    /\ done.arg = "unreadable"
    /\ done.ret = "raised"
    /\ done.failed = {"recursion"}

\* process_document_task(file_path, event_type) on the index idx and the
\* file tree fs when no operation raises (lines 79-179): the index it
\* leaves and the status it returns.
process_document(idx, fs, file_path, event_type) ==
    LET src == abspath(file_path)
        text == parse_document(fs, file_path)
        kept == IF event_type = "modified" THEN DeleteWhere(idx, src) ELSE idx
        texts == FilterTexts(split_text(text))
        entries == [ j \in 1 .. Len(texts) |->
                       Entry(file_path, event_type, j - 1,
                             IF Batched(texts) THEN (j - 1) \div batch_size ELSE NoBatch,
                             texts[j]) ]
    IN  IF event_type = "deleted"
        THEN [ index |-> DeleteWhere(idx, src), status |-> "deleted" ]
        ELSE IF ~Truthy(text) THEN [ index |-> idx, status |-> "failed_extraction" ]
        ELSE IF texts = <<>> THEN [ index |-> kept, status |-> "no_content" ]
        ELSE [ index |-> AddTexts(kept, entries), status |-> "indexed" ]

\* Executor x returns from its run in this step.
Returned(x) ==
    /\ ex'[x].pc = "idle"
    /\ \/ ex[x].pc # "idle"
       \/ \E id \in JobIds : Entered(id)
    /\ \A y \in Executors \ {x} : ex'[y] = ex[y]

(***************************************************************************)
(* C40.  Synchronous and queued ingestion agree: with no failing store     *)
(* operation, a run of process_document_sync and a run of                  *)
(* process_document_task for the same path, event type, file content and   *)
(* initial index leave the same index and return the same status, those of *)
(* the task's body run to its end.                                         *)
(***************************************************************************)
C40_SyncAgreesWithTask ==
    [][ \A x \in Executors :
          (Returned(x) /\ nsub' = 1) =>
              LET r == process_document(lim.index, files, state'[1].file_path,
                                        state'[1].event_type)
              IN  /\ index' = r.index
                  /\ state'[1].status = r.status
      ]_vars

\* The caller runs a modified job itself, the broker being down: the
\* entries of the earlier content are deleted, those of the other document
\* are there, and the chunks are about to be added.
C40_Witness ==
    /\ ~brokerUp
    /\ ex[Api].pc = "add"
    /\ ex[Api].msg.event_type = "modified"
    /\ Len(ex[Api].texts) = 2
    /\ lim.index = EarlierIndex
    /\ EntryCount(index, abspath(PathA)) = 0
    /\ EntryCount(index, abspath(PathB)) = 1

====
